---- MODULE Spec2Model ----
(***************************************************************************)
(* Model of the OAuth2 + PKCE authorization flow and the token lifecycle   *)
(* of etsy-mcp: the state store and callback route of OAuthServer, the     *)
(* TokenStorage file, and getValidAccessToken with the tool handlers of    *)
(* EtsyMCPServer that call it.                                             *)
(*                                                                         *)
(* An optional JavaScript value is a sequence: <<>> is undefined (or a     *)
(* missing file, a missing query parameter), <<v>> is the value v.         *)
(* Time is Date.now() in milliseconds.                                     *)
(***************************************************************************)
EXTENDS Integers, Sequences, FiniteSets, Bags, TLC

\* ------------------------------------------------------------------ bounds
\* Clock advances in the specification of the state store's expiry.
MaxTicks == 6
\* Clock advances in the specification of the callback route.
MaxAuthTicks == 1
\* Clock advances in the specification of the tool invocations.
MaxToolTicks == 2
\* Callback requests that may be awaiting the provider at the same time.
MaxCallbacks == 1
\* Tool invocations that may be awaiting the provider at the same time.
MaxTools == 1
\* Clock advances, and tool invocations awaiting the provider at the same
\* time, in the specification of the concurrent tool invocations.
MaxRaceTicks == 2
MaxRaceTools == 2
\* Clock advances in the specification of the TokenStorage operations.
MaxStoreTicks == 2
MaxRefreshTicks == 2
MaxRefreshTools == 2
MaxFairCallbacks == 1
MaxShopTools == 1
MaxListenTicks == 1
MaxLiveTicks == 6
MaxSharedTicks == 2
MaxShopRaceTicks == 2
MaxShopRaceTools == 2

\* ------------------------------------------------------- program constants
stateTTL == 300000
SweepInterval == 60000
DefaultLifetime == 3600000

\* The clock advances by one sweep interval at a time, starting at T0.
TickMs == SweepInterval
T0 == TickMs

None == <<>>
Some(v) == <<v>>
IsSome(o) == o # <<>>
Val(o) == o[1]

\* --------------------------------------------------------------- etsyApi
Digits == {"0", "1", "2", "3", "4", "5", "6", "7", "8", "9"}
DigitVal(c) ==
  CASE c = "0" -> 0 [] c = "1" -> 1 [] c = "2" -> 2 [] c = "3" -> 3
    [] c = "4" -> 4 [] c = "5" -> 5 [] c = "6" -> 6 [] c = "7" -> 7
    [] c = "8" -> 8 [] c = "9" -> 9

\* access_token.split('.')[0]: the characters before the first dot.
RECURSIVE FirstSegment(_)
FirstSegment(s) ==
  IF s = <<>> \/ Head(s) = "." THEN <<>> ELSE <<Head(s)>> \o FirstSegment(Tail(s))

\* The longest prefix of decimal digits, as parseInt(x, 10) reads it.
RECURSIVE DigitPrefix(_)
DigitPrefix(s) ==
  IF s = <<>> \/ Head(s) \notin Digits THEN <<>> ELSE <<Head(s)>> \o DigitPrefix(Tail(s))

RECURSIVE DecimalValue(_)
DecimalValue(ds) ==
  IF ds = <<>> THEN 0
  ELSE 10 * DecimalValue(SubSeq(ds, 1, Len(ds) - 1)) + DigitVal(ds[Len(ds)])

\* parseInt(seg, 10): None stands for NaN.
parseInt(seg) ==
  IF DigitPrefix(seg) = <<>> THEN None ELSE Some(DecimalValue(DigitPrefix(seg)))

\* getAccessTokenFromCode, lines 127-134: the user id parsed from the token.
userIdFromToken(access_token) ==
  IF access_token # <<>> /\ IsSome(parseInt(FirstSegment(access_token)))
  THEN parseInt(FirstSegment(access_token))
  ELSE None

\* getAccessTokenFromCode, lines 136-139: { ...response.data, user_id }.
getAccessTokenFromCode(data) ==
  [access_token |-> data.access_token,
   refresh_token |-> data.refresh_token,
   expires_in |-> data.expires_in,
   user_id |-> userIdFromToken(data.access_token)]

\* ---------------------------------------------------- etsyApi.generatePKCE
RandomByteCount == 32
VerifierMax == 128
DigestLen == 32
VaryLen == 3

\* The alphabet of Buffer.toString('base64') / digest('base64').
B64Std ==
  <<
   "A", "B", "C", "D", "E", "F", "G", "H", "I", "J", "K", "L", "M", "N", "O", "P",
   "Q", "R", "S", "T", "U", "V", "W", "X", "Y", "Z", "a", "b", "c", "d", "e", "f",
   "g", "h", "i", "j", "k", "l", "m", "n", "o", "p", "q", "r", "s", "t", "u", "v",
   "w", "x", "y", "z", "0", "1", "2", "3", "4", "5", "6", "7", "8", "9", "+", "/" >>

\* The alphabet of base64url (RFC 4648, section 5).
B64Url ==
  <<
   "A", "B", "C", "D", "E", "F", "G", "H", "I", "J", "K", "L", "M", "N", "O", "P",
   "Q", "R", "S", "T", "U", "V", "W", "X", "Y", "Z", "a", "b", "c", "d", "e", "f",
   "g", "h", "i", "j", "k", "l", "m", "n", "o", "p", "q", "r", "s", "t", "u", "v",
   "w", "x", "y", "z", "0", "1", "2", "3", "4", "5", "6", "7", "8", "9", "-", "_" >>

\* Buffer.toString('base64'): three bytes give four characters, a last group
\* of one or two bytes is padded with "=".
toBase64(bytes) ==
  LET n == Len(bytes)
      b(k, i) == IF 3 * k + i <= n THEN bytes[3 * k + i] ELSE 0
      char(p) ==
        LET k == (p - 1) \div 4
            j == (p - 1) % 4
        IN IF j = 0 THEN B64Std[(b(k, 1) \div 4) + 1]
           ELSE IF j = 1 THEN B64Std[((b(k, 1) % 4) * 16) + (b(k, 2) \div 16) + 1]
           ELSE IF j = 2
             THEN IF 3 * k + 2 <= n
                  THEN B64Std[((b(k, 2) % 16) * 4) + (b(k, 3) \div 64) + 1] ELSE "="
           ELSE IF 3 * k + 3 <= n THEN B64Std[(b(k, 3) % 64) + 1] ELSE "="
  IN [p \in 1..(4 * ((n + 2) \div 3)) |-> char(p)]

\* [a-zA-Z0-9]
IsAlnum(c) == \E i \in 1..62 : B64Std[i] = c

\* .replace(/[^a-zA-Z0-9]/g, '')
StripNonAlnum(str) == SelectSeq(str, IsAlnum)

\* .substring(0, n)
substring0(str, n) == SubSeq(str, 1, IF Len(str) < n THEN Len(str) ELSE n)

\* Lines 57-60: the verifier made of the random bytes.
codeVerifierOf(bytes) == substring0(StripNonAlnum(toBase64(bytes)), VerifierMax)

\* The digest of createHash('sha256').update(str).digest(): DigestLen bytes
\* that depend on every character of str. The byte values are those of a
\* stand-in function, not of SHA-256; what follows uses the digest only as
\* a sequence of bytes.
sha256(str) ==
  LET idx(c) == CHOOSE i \in 1..64 : B64Std[i] = c
      RECURSIVE sum(_)
      sum(j) == IF j = 0 THEN 0 ELSE ((sum(j - 1) * 31) + idx(str[j])) % 65521
      h == sum(Len(str))
  IN [i \in 1..DigestLen |-> ((h * ((2 * i) + 1)) + (h \div 256) + (7 * i)) % 256]

\* A challenge that keeps the "=" padding.
challengeEncoding_Padded(b64) ==
  [p \in 1..Len(b64) |->
     IF b64[p] = "+" THEN "-" ELSE IF b64[p] = "/" THEN "_" ELSE b64[p]]

\* Lines 65-67: .replace(/\+/g, '-').replace(/\//g, '_').replace(/=/g, '')
challengeEncoding(b64) ==
  LET r == [p \in 1..Len(b64) |->
              IF b64[p] = "+" THEN "-" ELSE IF b64[p] = "/" THEN "_" ELSE b64[p]]
  IN SelectSeq(r, LAMBDA c : c # "=")

\* Lines 62-67: the challenge of a verifier.
codeChallengeOf(verifier) == challengeEncoding(toBase64(sha256(verifier)))

\* generatePKCE, lines 54-71, with the bytes crypto.randomBytes returned.
generatePKCE(bytes) ==
  [codeVerifier |-> codeVerifierOf(bytes),
   codeChallenge |-> codeChallengeOf(codeVerifierOf(bytes))]

\* base64url without padding as RFC 4648 defines it: the bits of the bytes,
\* taken six at a time and filled with zero bits at the end.
base64url_nopad(bytes) ==
  LET n == Len(bytes)
      bit(x) == IF x < 8 * n
                THEN (bytes[(x \div 8) + 1] \div (2 ^ (7 - (x % 8)))) % 2 ELSE 0
      sextet(o) == 32 * bit(o) + 16 * bit(o + 1) + 8 * bit(o + 2)
                   + 4 * bit(o + 3) + 2 * bit(o + 4) + bit(o + 5)
  IN [i \in 1..((8 * n + 5) \div 6) |-> B64Url[sextet(6 * (i - 1)) + 1]]

\* Values of crypto.randomBytes(32): the first VaryLen bytes range over
\* ByteSamples, the others are fixed. 251 and 255 begin a base64 group with
\* "+" and "/".
ByteSamples == {0, 65, 190, 251, 255}
RandomInputs ==
  { [i \in 1..RandomByteCount |-> IF i <= VaryLen THEN f[i] ELSE 16 + 7 * i] :
      f \in [1..VaryLen -> ByteSamples] }

\* ----------------------------------------------------------- TokenStorage
VARIABLES
  now,                 \* Date.now()
  tokenFile,           \* content of tokens.json: None when the file does not exist
  fileStorageEnabled   \* TokenStorage.fileStorageEnabled

\* What a file-system call does: it succeeds, fails with EROFS/EACCES, or
\* fails with another error code.
FsOutcomes == {"ok", "perm", "other"}

\* JavaScript truthiness of an optional number (undefined, NaN and 0 are falsy).
Truthy(o) == IsSome(o) /\ Val(o) # 0

\* A consumer whose TokenStorage does not see the file the others write.
Store_Private == [file |-> <<>>, enabled |-> fileStorageEnabled]

\* The TokenStorage object and its file, threaded through a handler.
Store == [file |-> tokenFile, enabled |-> fileStorageEnabled]

\* A save that does not take over an expires_at passed by the caller.
newExpiresAt_NoPassThrough(tokens) ==
  IF Truthy(tokens.expires_in) THEN now + Val(tokens.expires_in) * 1000
  ELSE now + DefaultLifetime

\* A save that ignores expires_in and expires_at.
newExpiresAt_Default(tokens) == now + DefaultLifetime

\* saveTokens, lines 58-65.
newExpiresAt(tokens) ==
  IF Truthy(tokens.expires_in) THEN now + Val(tokens.expires_in) * 1000
  ELSE IF Truthy(tokens.expires_at) THEN Val(tokens.expires_at)
  ELSE now + DefaultLifetime

\* A record written without the shop name.
tokensToSave_NoShopName(tokens) ==
  [access_token |-> tokens.access_token,
   refresh_token |-> tokens.refresh_token,
   user_id |-> tokens.user_id,
   shop_id |-> tokens.shop_id,
   shop_name |-> None,
   expires_at |-> Some(newExpiresAt(tokens))]

\* saveTokens, lines 67-74.
tokensToSave(tokens) ==
  [access_token |-> tokens.access_token,
   refresh_token |-> tokens.refresh_token,
   user_id |-> tokens.user_id,
   shop_id |-> tokens.shop_id,
   shop_name |-> tokens.shop_name,
   expires_at |-> Some(newExpiresAt(tokens))]

\* A save that keeps the stored user id and shop where the update has none.
saveTokens_Merges(st, tokens, out) ==
  IF ~st.enabled THEN [file |-> st.file, enabled |-> FALSE, threw |-> FALSE]
  ELSE IF out = "ok"
    THEN [file |-> Some([tokensToSave(tokens) EXCEPT
                 !.user_id = IF @ = None /\ IsSome(st.file) THEN Val(st.file).user_id ELSE @,
                 !.shop_id = IF @ = None /\ IsSome(st.file) THEN Val(st.file).shop_id ELSE @,
                 !.shop_name = IF @ = None /\ IsSome(st.file)
                               THEN Val(st.file).shop_name ELSE @]),
          enabled |-> TRUE, threw |-> FALSE]
  ELSE IF out = "perm"
    THEN [file |-> st.file, enabled |-> FALSE, threw |-> FALSE]
  ELSE [file |-> st.file, enabled |-> TRUE, threw |-> TRUE]

\* A save that meets EROFS/EACCES and leaves the store enabled.
saveTokens_StaysEnabled(st, tokens, out) ==
  IF ~st.enabled THEN [file |-> st.file, enabled |-> FALSE, threw |-> FALSE]
  ELSE IF out = "ok"
    THEN [file |-> Some(tokensToSave(tokens)), enabled |-> TRUE, threw |-> FALSE]
  ELSE IF out = "perm"
    THEN [file |-> st.file, enabled |-> TRUE, threw |-> FALSE]
  ELSE [file |-> st.file, enabled |-> TRUE, threw |-> TRUE]

\* A save that writes although the store is disabled.
saveTokens_IgnoresFlag(st, tokens, out) ==
  IF out = "ok" \/ ~st.enabled
    THEN [file |-> Some(tokensToSave(tokens)), enabled |-> st.enabled, threw |-> FALSE]
  ELSE IF out = "perm"
    THEN [file |-> st.file, enabled |-> FALSE, threw |-> FALSE]
  ELSE [file |-> st.file, enabled |-> TRUE, threw |-> TRUE]

\* saveTokens: the store afterwards, and whether the call threw.
saveTokens(st, tokens, out) ==
  IF ~st.enabled THEN [file |-> st.file, enabled |-> FALSE, threw |-> FALSE]
  ELSE IF out = "ok"
    THEN [file |-> Some(tokensToSave(tokens)), enabled |-> TRUE, threw |-> FALSE]
  ELSE IF out = "perm"
    THEN [file |-> st.file, enabled |-> FALSE, threw |-> FALSE]
  ELSE [file |-> st.file, enabled |-> TRUE, threw |-> TRUE]

\* An expiry test that counts the instant expires_at itself as expired.
IsExpired_Inclusive(tokens) == Truthy(tokens.expires_at) /\ Val(tokens.expires_at) <= now

\* getTokens, line 106: the expiry test.
IsExpired(tokens) == Truthy(tokens.expires_at) /\ Val(tokens.expires_at) < now

\* getTokens: the value returned, and the store's flag afterwards.
getTokens(st, out) ==
  IF ~st.enabled THEN [ret |-> None, enabled |-> FALSE]
  ELSE IF st.file = None THEN [ret |-> None, enabled |-> TRUE]
  ELSE IF out = "ok"
    THEN [ret |-> IF IsExpired(Val(st.file)) THEN None ELSE st.file, enabled |-> TRUE]
  ELSE [ret |-> None, enabled |-> (out # "perm")]

\* loadPotentiallyExpiredTokens.
loadPotentiallyExpiredTokens(st, out) ==
  IF ~st.enabled THEN [ret |-> None, enabled |-> FALSE]
  ELSE IF st.file = None THEN [ret |-> None, enabled |-> TRUE]
  ELSE IF out = "ok" THEN [ret |-> st.file, enabled |-> TRUE]
  ELSE [ret |-> None, enabled |-> (out # "perm")]

\* A clearTokens that unlinks without looking whether the file exists.
clearTokens_NoExistsCheck(st, out) ==
  IF ~st.enabled THEN [file |-> st.file, enabled |-> FALSE, threw |-> FALSE]
  ELSE IF st.file = None THEN [file |-> None, enabled |-> TRUE, threw |-> TRUE]
  ELSE IF out = "ok" THEN [file |-> None, enabled |-> TRUE, threw |-> FALSE]
  ELSE IF out = "perm" THEN [file |-> st.file, enabled |-> FALSE, threw |-> FALSE]
  ELSE [file |-> st.file, enabled |-> TRUE, threw |-> TRUE]

\* clearTokens: the store afterwards, and whether the call threw.
clearTokens(st, out) ==
  IF ~st.enabled THEN [file |-> st.file, enabled |-> FALSE, threw |-> FALSE]
  ELSE IF st.file = None THEN [file |-> None, enabled |-> TRUE, threw |-> FALSE]
  ELSE IF out = "ok" THEN [file |-> None, enabled |-> TRUE, threw |-> FALSE]
  ELSE IF out = "perm" THEN [file |-> st.file, enabled |-> FALSE, threw |-> FALSE]
  ELSE [file |-> st.file, enabled |-> TRUE, threw |-> TRUE]

\* ---------------------------------------------------- the provider's answers
\* Access tokens as character sequences: "7.a" and "7.b" carry user id 7,
\* "xy" has no numeric segment.
TokenA == <<"7", ".", "a">>
TokenB == <<"7", ".", "b">>
TokenX == <<"x", "y">>
TokenC == <<"7", ".", "c">>

\* Bodies of the token endpoint's answers to a code exchange; user_id is a
\* user id the provider may supply itself.
ExchangeResponses ==
  { [access_token |-> TokenA, refresh_token |-> Some("r1"), expires_in |-> Some(60),
     user_id |-> None],
    [access_token |-> TokenX, refresh_token |-> None, expires_in |-> Some(120),
     user_id |-> Some(9)],
    [access_token |-> TokenA, refresh_token |-> Some("r1"), expires_in |-> None,
     user_id |-> None] }

\* Bodies of the token endpoint's answers to a refresh.
RefreshResponses ==
  { [access_token |-> TokenB, refresh_token |-> Some("r2"), expires_in |-> Some(60)],
    [access_token |-> TokenB, refresh_token |-> Some("r2"), expires_in |-> None] }

Shop5 == [shop_id |-> Some(5), shop_name |-> Some("five")]
Shop6 == [shop_id |-> Some(6), shop_name |-> Some("six")]
NoShop == [shop_id |-> None, shop_name |-> None]

\* Answers of getUserShops: a failure, a list of shops, one shop object, or
\* an answer with no shop in it.
ShopResponses == {"fail", "list", "single", "empty"}

\* A lookup whose failure still yields a shop.
shopToSet_Stale(resp) == IF resp = "single" THEN Shop6 ELSE Shop5

\* The shop chosen from a getUserShops answer (oauthServer.ts lines 129-139,
\* mcpServer.ts lines 115-124); NoShop when shopToSet stays null.
shopToSet(resp) ==
  IF resp = "list" THEN Shop5 ELSE IF resp = "single" THEN Shop6 ELSE NoShop

\* ------------------------------------------------------------ OAuthServer
VARIABLES
  stateStore,      \* OAuthServer.stateStore: state -> None or Some(StateData)
  nextSweep,       \* when the setInterval timer of cleanupExpiredStates is due
  cbs,             \* bag of the /oauth/callback requests awaiting the provider
  usedSinceIssue,  \* per state: callbacks that found its entry since GET /auth set it
  ev,              \* the last handler step and what it observed
  tools,           \* bag of the tool invocations awaiting the provider
  server,          \* OAuthServer.server: "null", or a listener "starting" or "listening"
  issued,          \* per state value: the verifier GET /auth last generated with it
  pkce             \* the last pair generatePKCE returned, with its random bytes

vars == <<now, tokenFile, fileStorageEnabled, stateStore, nextSweep, cbs, usedSinceIssue,
          ev, tools, server, issued, pkce>>

States == {"s1", "s2"}
Verifiers == {"v1", "v2"}

\* Query parameters: <<>> missing, <<v>> the string v, <<v, v>> a repeated
\* parameter (an array, not a string).
Query(error, code, state) == [error |-> error, code |-> code, state |-> state]

\* The callback requests tried: well-formed ones, and ones with an error
\* parameter, without a code, with a repeated code, or without a state.
WellFormed == {Query(<<>>, <<"abc">>, <<s>>) : s \in States}
Queries ==
  WellFormed \cup
  { Query(<<"access_denied">>, <<"abc">>, <<"s1">>),
    Query(<<"access_denied">>, <<>>, <<>>),
    Query(<<>>, <<>>, <<"s1">>),
    Query(<<>>, <<"abc", "abc">>, <<"s1">>),
    Query(<<>>, <<"abc">>, <<>>) }

\* !p || typeof p !== 'string'
NotAString(p) == Len(p) # 1 \/ p[1] = ""

MsgOAuthError == "OAuth Error"
MsgMissing == "Missing authorization code or state in callback"
MsgInvalidState == "Invalid or expired state parameter"
MsgExchangeFailed == "Token exchange failed"
MsgSuccess == "Authentication Successful"

\* A bag with one request taken out, and with one put in.
Without(bag, r) == bag (-) SetToBag({r})

\* A request that joins an equal request already awaiting its answer.
With_Shared(bag, r) == IF r \in BagToSet(bag) THEN bag ELSE bag (+) SetToBag({r})

With(bag, r) == bag (+) SetToBag({r})

\* The state values with a pending entry.
Pending(store) == {s \in States : store[s] # None}

\* A sweep that finds no entry old enough.
SweepExpired_Never(data, t) == FALSE

\* A sweep that also removes an entry whose age is exactly the TTL.
SweepExpired_Inclusive(data, t) == t - data.createdAt >= stateTTL

\* cleanupExpiredStates, line 41: the sweep's test of one entry.
SweepExpired(data, t) == t - data.createdAt > stateTTL

\* The timer callback of cleanupExpiredStates.
Sweep ==
  /\ now >= nextSweep
  /\ stateStore' = [s \in States |->
        IF IsSome(stateStore[s]) /\ SweepExpired(Val(stateStore[s]), now)
        THEN None ELSE stateStore[s]]
  /\ nextSweep' = nextSweep + SweepInterval
  /\ ev' = [op |-> "sweep"]
  /\ UNCHANGED <<server, pkce, issued, now, tokenFile, fileStorageEnabled, cbs, usedSinceIssue, tools>>

\* A GET /auth that stores the verifier of an earlier attempt with the new
\* state.
Auth_Cached(state, codeVerifier) ==
  /\ stateStore' = [stateStore EXCEPT
        ![state] = Some([codeVerifier |-> "v1", createdAt |-> now])]
  /\ usedSinceIssue' = [usedSinceIssue EXCEPT ![state] = 0]
  /\ ev' = [op |-> "auth", state |-> state, codeVerifier |-> codeVerifier]
  /\ issued' = [issued EXCEPT ![state] = Some(codeVerifier)]
  /\ UNCHANGED <<server, pkce, now, nextSweep, tokenFile, fileStorageEnabled, cbs, tools>>

\* A GET /auth that drops the entries of the other states.
Auth_Reset(state, codeVerifier) ==
  /\ stateStore' = [s \in States |->
        IF s = state THEN Some([codeVerifier |-> codeVerifier, createdAt |-> now])
        ELSE None]
  /\ usedSinceIssue' = [usedSinceIssue EXCEPT ![state] = 0]
  /\ ev' = [op |-> "auth", state |-> state, codeVerifier |-> codeVerifier]
  /\ issued' = [issued EXCEPT ![state] = Some(codeVerifier)]
  /\ UNCHANGED <<server, pkce, now, nextSweep, tokenFile, fileStorageEnabled, cbs, tools>>

\* GET /auth, lines 51-65: a random state and a fresh PKCE verifier.
Auth(state, codeVerifier) ==
  /\ stateStore' = [stateStore EXCEPT
        ![state] = Some([codeVerifier |-> codeVerifier, createdAt |-> now])]
  /\ usedSinceIssue' = [usedSinceIssue EXCEPT ![state] = 0]
  /\ ev' = [op |-> "auth", state |-> state, codeVerifier |-> codeVerifier]
  /\ issued' = [issued EXCEPT ![state] = Some(codeVerifier)]
  /\ UNCHANGED <<server, pkce, now, nextSweep, tokenFile, fileStorageEnabled, cbs, tools>>

\* A callback that does not look at the error parameter.
RejectedEarly_NoErrorCheck(q) ==
  IF NotAString(q.code) \/ NotAString(q.state) THEN Some(MsgMissing) ELSE None

\* GET /oauth/callback, lines 82-93: rejected before the state lookup.
RejectedEarly(q) ==
  IF q.error # <<>> THEN Some(MsgOAuthError)
  ELSE IF NotAString(q.code) \/ NotAString(q.state) THEN Some(MsgMissing)
  ELSE None

\* A callback that leaves the entry of the state it used in the store.
ConsumeState_Keep(store, state) == store

\* GET /oauth/callback, line 103: the store after the state was used.
ConsumeState(store, state) == [store EXCEPT ![state] = None]

\* A callback that deletes the entry of the state named in the request before
\* it looks at the error and code parameters.
Callback_DeletesFirst(q, maxCb) ==
  /\ UNCHANGED <<server, pkce, issued, now, nextSweep, tokenFile, fileStorageEnabled, tools>>
  /\ IF IsSome(RejectedEarly(q))
     THEN /\ ev' = [op |-> "callback", q |-> q, status |-> Some(500),
                    msg |-> Val(RejectedEarly(q)), exchange |-> None]
          /\ stateStore' = IF NotAString(q.state) THEN stateStore
                           ELSE ConsumeState(stateStore, q.state[1])
          /\ UNCHANGED <<cbs, usedSinceIssue>>
     ELSE IF stateStore[q.state[1]] = None
     THEN /\ ev' = [op |-> "callback", q |-> q, status |-> Some(500),
                    msg |-> MsgInvalidState, exchange |-> None]
          /\ UNCHANGED <<stateStore, cbs, usedSinceIssue>>
     ELSE /\ BagCardinality(cbs) < maxCb
          /\ stateStore' = ConsumeState(stateStore, q.state[1])
          /\ usedSinceIssue' = [usedSinceIssue EXCEPT
                ![q.state[1]] = IF @ < 2 THEN @ + 1 ELSE @]
          /\ cbs' = With(cbs,
                [pc |-> "exchanging", state |-> q.state[1], code |-> q.code[1],
                 codeVerifier |-> Val(stateStore[q.state[1]]).codeVerifier])
          /\ ev' = [op |-> "callback", q |-> q, status |-> None, msg |-> "",
                    exchange |-> Some([code |-> q.code[1],
                       codeVerifier |-> Val(stateStore[q.state[1]]).codeVerifier])]

\* GET /oauth/callback up to its first await (lines 73-115); at most maxCb
\* requests await the provider.
Callback(q, maxCb) ==
  /\ UNCHANGED <<server, pkce, issued, now, nextSweep, tokenFile, fileStorageEnabled, tools>>
  /\ IF IsSome(RejectedEarly(q))
     THEN /\ ev' = [op |-> "callback", q |-> q, status |-> Some(500),
                    msg |-> Val(RejectedEarly(q)), exchange |-> None]
          /\ UNCHANGED <<stateStore, cbs, usedSinceIssue>>
     ELSE IF stateStore[q.state[1]] = None
     THEN /\ ev' = [op |-> "callback", q |-> q, status |-> Some(500),
                    msg |-> MsgInvalidState, exchange |-> None]
          /\ UNCHANGED <<stateStore, cbs, usedSinceIssue>>
     ELSE /\ BagCardinality(cbs) < maxCb
          /\ stateStore' = ConsumeState(stateStore, q.state[1])
          /\ usedSinceIssue' = [usedSinceIssue EXCEPT
                ![q.state[1]] = IF @ < 2 THEN @ + 1 ELSE @]
          /\ cbs' = With(cbs,
                [pc |-> "exchanging", state |-> q.state[1], code |-> q.code[1],
                 codeVerifier |-> Val(stateStore[q.state[1]]).codeVerifier])
          /\ ev' = [op |-> "callback", q |-> q, status |-> None, msg |-> "",
                    exchange |-> Some([code |-> q.code[1],
                       codeVerifier |-> Val(stateStore[q.state[1]]).codeVerifier])]

\* How a saveTokens call ended: the record was written, nothing was written
\* (disabled store, or EROFS/EACCES), or the call threw.
SaveKind(st, res) ==
  IF res.threw THEN "threw"
  ELSE IF st.enabled /\ res.enabled THEN "written" ELSE "noop"

\* The argument of saveTokens in the callback, lines 147-154.
CallbackSaveArg(tokens, shop) ==
  [access_token |-> tokens.access_token,
   refresh_token |-> tokens.refresh_token,
   expires_in |-> tokens.expires_in,
   expires_at |-> None,
   user_id |-> tokens.user_id,
   shop_id |-> shop.shop_id,
   shop_name |-> shop.shop_name]

\* Lines 146-166: save the record and answer; a throwing save is caught by
\* the catch of the exchange.
\* A callback that answers with the success page whatever saveTokens did.
SaveAndRespond_AlwaysOk(r, tokens, shopResp, out) ==
  LET shop == shopToSet(shopResp)
      res == saveTokens(Store, CallbackSaveArg(tokens, shop), out)
  IN /\ tokenFile' = res.file
     /\ fileStorageEnabled' = res.enabled
     /\ cbs' = Without(cbs, r)
     /\ ev' = [op |-> "cbdone", state |-> r.state, code |-> r.code,
               codeVerifier |-> r.codeVerifier,
               status |-> 200, msg |-> MsgSuccess,
               tokens |-> Some(tokens), shopResp |-> shopResp, shop |-> shop,
               saved |-> SaveKind(Store, res), at |-> now]

SaveAndRespond(r, tokens, shopResp, out) ==
  LET shop == shopToSet(shopResp)
      res == saveTokens(Store, CallbackSaveArg(tokens, shop), out)
  IN /\ tokenFile' = res.file
     /\ fileStorageEnabled' = res.enabled
     /\ cbs' = Without(cbs, r)
     /\ ev' = [op |-> "cbdone", state |-> r.state, code |-> r.code,
               codeVerifier |-> r.codeVerifier,
               status |-> IF res.threw THEN 500 ELSE 200,
               msg |-> IF res.threw THEN MsgExchangeFailed ELSE MsgSuccess,
               tokens |-> Some(tokens), shopResp |-> shopResp, shop |-> shop,
               saved |-> SaveKind(Store, res), at |-> now]

\* A failed exchange that removes the stored record.
ExchangeFails_Clears(r) ==
  /\ r \in BagToSet(cbs)
  /\ r.pc = "exchanging"
  /\ cbs' = Without(cbs, r)
  /\ tokenFile' = None
  /\ ev' = [op |-> "cbdone", state |-> r.state, code |-> r.code,
            codeVerifier |-> r.codeVerifier,
            status |-> 500, msg |-> MsgExchangeFailed,
            tokens |-> None, shopResp |-> "none", shop |-> NoShop,
            saved |-> "none", at |-> now]
  /\ UNCHANGED <<server, pkce, issued, now, nextSweep, fileStorageEnabled, stateStore, usedSinceIssue, tools>>

\* Line 115 throws: the catch of lines 163-166 answers 500.
ExchangeFails(r) ==
  /\ r \in BagToSet(cbs)
  /\ r.pc = "exchanging"
  /\ cbs' = Without(cbs, r)
  /\ ev' = [op |-> "cbdone", state |-> r.state, code |-> r.code,
            codeVerifier |-> r.codeVerifier,
            status |-> 500, msg |-> MsgExchangeFailed,
            tokens |-> None, shopResp |-> "none", shop |-> NoShop,
            saved |-> "none", at |-> now]
  /\ UNCHANGED <<server, pkce, issued, now, nextSweep, tokenFile, fileStorageEnabled, stateStore, usedSinceIssue,
                 tools>>

\* Line 123: the shop lookup is made only with a user id and an access token.
WantsShopLookup(tokens) == Truthy(tokens.user_id) /\ tokens.access_token # <<>>

\* Line 115 returns: lines 116-126, or lines 146-158 when no lookup is made.
ExchangeSucceeds(r, data, out) ==
  /\ r \in BagToSet(cbs)
  /\ r.pc = "exchanging"
  /\ UNCHANGED <<server, pkce, issued, now, nextSweep, stateStore, usedSinceIssue, tools>>
  /\ LET tokens == getAccessTokenFromCode(data)
     IN IF WantsShopLookup(tokens)
        THEN /\ cbs' = With(Without(cbs, r),
                    [pc |-> "shops", state |-> r.state, code |-> r.code,
                     codeVerifier |-> r.codeVerifier, tokens |-> tokens])
             /\ ev' = [op |-> "exchanged", tokens |-> tokens]
             /\ UNCHANGED <<tokenFile, fileStorageEnabled>>
        ELSE SaveAndRespond(r, tokens, "none", out)

\* Line 126 returns or throws: lines 129-158.
ShopsReturn(r, shopResp, out) ==
  /\ r \in BagToSet(cbs)
  /\ r.pc = "shops"
  /\ UNCHANGED <<server, pkce, issued, now, nextSweep, stateStore, usedSinceIssue, tools>>
  /\ SaveAndRespond(r, r.tokens, shopResp, out)

\* The clock advances; a due timer callback runs first.
Tick(maxTicks) ==
  /\ now < T0 + maxTicks * TickMs
  /\ now < nextSweep
  /\ now' = now + TickMs
  /\ ev' = [op |-> "tick"]
  /\ UNCHANGED <<server, pkce, issued, nextSweep, tokenFile, fileStorageEnabled, stateStore, cbs, usedSinceIssue,
                 tools>>

\* ---------------------------------------------------------- EtsyMCPServer
ToolKinds == {"get_listings", "set_default_shop"}
ShopArgs == {None, Some(0), Some(3)}

MsgAuthRequired == "Authentication required"
MsgShopRequired == "Shop ID is required"
MsgNoUserId == "User ID not found"
MsgNoShops == "No shops found"
MsgFailed == "failed"

\* An error result that is not marked as an error.
handleError_Plain(text) == [isError |-> FALSE, text |-> text]

\* handleError, lines 526-535.
handleError(text) == [isError |-> TRUE, text |-> text]
ToolOk(text) == [isError |-> FALSE, text |-> text]

\* What a read of the token file met: a disabled store, no file, or the
\* outcome of readFileSync.
ReadOutcome(st, out) ==
  IF ~st.enabled THEN "disabled" ELSE IF st.file = None THEN "nofile" ELSE out

\* tokens?.access_token (mcpServer.ts line 488).
HasAccessToken(ret) == IsSome(ret) /\ Val(ret).access_token # <<>>

\* A test that takes any stored record as refreshable.
HasRefreshToken_AnyRecord(ret) == IsSome(ret)

\* potentiallyExpiredTokens?.refresh_token (line 494).
HasRefreshToken(ret) == IsSome(ret) /\ IsSome(Val(ret).refresh_token)

\* The fields of potentiallyExpiredTokens that lines 497-502 read.
Kept(tokens) ==
  [refresh_token |-> tokens.refresh_token, user_id |-> tokens.user_id,
   shop_id |-> tokens.shop_id, shop_name |-> tokens.shop_name]

\* getValidAccessToken up to its await, lines 484-497: it returns the stored
\* access token, starts a refresh, or returns null.
gvatStart(st, o1, o2) ==
  LET g1 == getTokens(st, o1)
      g2 == loadPotentiallyExpiredTokens([file |-> st.file, enabled |-> g1.enabled], o2)
  IN IF HasAccessToken(g1.ret)
     THEN [kind |-> "token", tok |-> Val(g1.ret).access_token, enabled |-> g1.enabled,
           pet |-> None, read |-> g1.ret, readOut |-> ReadOutcome(st, o1),
           loadOut |-> "none"]
     ELSE IF HasRefreshToken(g2.ret)
     THEN [kind |-> "refresh", tok |-> <<>>, enabled |-> g2.enabled,
           pet |-> g2.ret, read |-> g1.ret, readOut |-> ReadOutcome(st, o1),
           loadOut |-> ReadOutcome([file |-> st.file, enabled |-> g1.enabled], o2)]
     ELSE [kind |-> "null", tok |-> <<>>, enabled |-> g2.enabled,
           pet |-> None, read |-> g1.ret, readOut |-> ReadOutcome(st, o1),
           loadOut |-> ReadOutcome([file |-> st.file, enabled |-> g1.enabled], o2)]

\* The handler after getValidAccessToken returned tok. get_listings, lines
\* 202-213: the shop argument, else the stored default shop, then the API
\* call. set_default_shop, lines 104-112: the stored record, then getUserShops.
\* next is the invocation awaiting the API, result the result returned at once.
AfterToken(kind, shopArg, tok, st, o2) ==
  LET g == getTokens(st, o2)
  IN IF kind = "get_listings"
     THEN IF Truthy(shopArg)
          THEN [enabled |-> st.enabled, result |-> None,
                next |-> Some([pc |-> "api", kind |-> kind, tok |-> tok,
                               shop |-> Val(shopArg)])]
          ELSE IF IsSome(g.ret) /\ Truthy(Val(g.ret).shop_id)
          THEN [enabled |-> g.enabled, result |-> None,
                next |-> Some([pc |-> "api", kind |-> kind, tok |-> tok,
                               shop |-> Val(Val(g.ret).shop_id)])]
          ELSE [enabled |-> g.enabled, result |-> Some(handleError(MsgShopRequired)),
                next |-> None]
     ELSE IF IsSome(g.ret) /\ Truthy(Val(g.ret).user_id)
          THEN [enabled |-> g.enabled, result |-> None,
                next |-> Some([pc |-> "sdsShops", kind |-> kind, tok |-> tok,
                               tokens |-> Val(g.ret)])]
          ELSE [enabled |-> g.enabled, result |-> Some(handleError(MsgNoUserId)),
                next |-> None]

\* An API call that is sent with the token of the first authorization.
IssuedCall_FirstToken(next) ==
  IF next = None THEN None
  ELSE IF Val(next).pc = "api"
    THEN Some([api |-> "getListings", tok |-> TokenA, shop |-> Val(next).shop])
  ELSE Some([api |-> "getUserShops", tok |-> TokenA,
             shop |-> Val(Val(next).tokens.user_id)])

\* The API call a handler step issued, if any.
IssuedCall(next) ==
  IF next = None THEN None
  ELSE IF Val(next).pc = "api"
    THEN Some([api |-> "getListings", tok |-> Val(next).tok, shop |-> Val(next).shop])
  ELSE Some([api |-> "getUserShops", tok |-> Val(next).tok,
             shop |-> Val(Val(next).tokens.user_id)])

\* The bag of invocations with the optional invocation next put in.
WithNext(bag, next) == IF next = None THEN bag ELSE With(bag, Val(next))

\* A tool handler up to its first await (lines 97-112, 195-213). It reads the
\* token file at most twice: getTokens with outcome o1, then either
\* loadPotentiallyExpiredTokens or the handler's own getTokens with outcome
\* o2. At most maxTools invocations await the provider.
ToolStart(kind, shopArg, o1, o2, maxTools) ==
  /\ BagCardinality(tools) < maxTools
  /\ UNCHANGED <<server, pkce, issued, now, nextSweep, tokenFile, stateStore, cbs, usedSinceIssue>>
  /\ LET g == gvatStart(Store, o1, o2)
         a == AfterToken(kind, shopArg, g.tok, [file |-> tokenFile, enabled |-> g.enabled], o2)
     IN IF g.kind = "token"
        THEN /\ tools' = WithNext(tools, a.next)
             /\ fileStorageEnabled' = a.enabled
             /\ ev' = [op |-> "tool", step |-> "start", kind |-> kind, shopArg |-> shopArg,
                       gvat |-> Some([ret |-> "token", tok |-> g.tok]),
                       refreshCalls |-> 0, read |-> g.read, readOut |-> g.readOut,
                       loadOut |-> g.loadOut,
                       result |-> a.result, call |-> IssuedCall(a.next)]
        ELSE IF g.kind = "refresh"
        THEN /\ tools' = With(tools,
                   [pc |-> "refreshing", kind |-> kind, shopArg |-> shopArg,
                    pet |-> Kept(Val(g.pet))])
             /\ fileStorageEnabled' = g.enabled
             /\ ev' = [op |-> "tool", step |-> "start", kind |-> kind, shopArg |-> shopArg,
                       gvat |-> None, refreshCalls |-> 1,
                       read |-> g.read, readOut |-> g.readOut,
                       loadOut |-> g.loadOut,
                       result |-> None, call |-> None]
        ELSE /\ tools' = tools
             /\ fileStorageEnabled' = g.enabled
             /\ ev' = [op |-> "tool", step |-> "start", kind |-> kind, shopArg |-> shopArg,
                       gvat |-> Some([ret |-> "null", tok |-> <<>>]),
                       refreshCalls |-> 0, read |-> g.read, readOut |-> g.readOut,
                       loadOut |-> g.loadOut,
                       result |-> Some(handleError(MsgAuthRequired)), call |-> None]

\* A refresh that saves the new tokens without the stored default shop.
RefreshSaveArg_NoShop(data, pet) ==
  [access_token |-> data.access_token,
   refresh_token |-> data.refresh_token,
   expires_in |-> None,
   expires_at |-> IF IsSome(data.expires_in)
                  THEN Some(now + Val(data.expires_in) * 1000) ELSE None,
   user_id |-> pet.user_id,
   shop_id |-> None,
   shop_name |-> None]

\* The argument of saveTokens after a refresh, lines 504-511.
RefreshSaveArg(data, pet) ==
  [access_token |-> data.access_token,
   refresh_token |-> data.refresh_token,
   expires_in |-> None,
   expires_at |-> IF IsSome(data.expires_in)
                  THEN Some(now + Val(data.expires_in) * 1000) ELSE None,
   user_id |-> pet.user_id,
   shop_id |-> pet.shop_id,
   shop_name |-> pet.shop_name]

\* How a clearTokens call ended.
ClearKind(st, cl) ==
  IF cl.threw THEN "threw" ELSE IF st.enabled /\ cl.enabled THEN "cleared" ELSE "noop"

\* The catch of lines 515-519: clearTokens, then null; a throwing clearTokens
\* leaves getValidAccessToken through the handler's catch.
RefreshCatch(r, st, oc, refreshed, saved) ==
  LET cl == clearTokens(st, oc)
  IN /\ tokenFile' = cl.file
     /\ fileStorageEnabled' = cl.enabled
     /\ tools' = Without(tools, r)
     /\ ev' = [op |-> "tool", step |-> "refreshed", kind |-> r.kind,
               gvat |-> Some([ret |-> IF cl.threw THEN "throw" ELSE "null", tok |-> <<>>]),
               refreshCalls |-> 1, refreshed |-> refreshed, saved |-> saved,
               cleared |-> ClearKind(st, cl), pet |-> r.pet, at |-> now,
               result |-> Some(handleError(IF cl.threw THEN MsgFailed ELSE MsgAuthRequired)),
               call |-> None]

\* Line 497 throws.
RefreshFails(r, oc) ==
  /\ r \in BagToSet(tools)
  /\ r.pc = "refreshing"
  /\ UNCHANGED <<server, pkce, issued, now, nextSweep, stateStore, cbs, usedSinceIssue>>
  /\ RefreshCatch(r, Store, oc, None, "none")

\* Line 497 returns: lines 499-514, then the handler goes on. After saveTokens
\* with outcome os comes one more file-system call with outcome o2: clearTokens
\* when the save threw, else the handler's own getTokens.
RefreshSucceeds(r, data, os, o2) ==
  /\ r \in BagToSet(tools)
  /\ r.pc = "refreshing"
  /\ UNCHANGED <<server, pkce, issued, now, nextSweep, stateStore, cbs, usedSinceIssue>>
  /\ LET sv == saveTokens(Store, RefreshSaveArg(data, r.pet), os)
         st == [file |-> sv.file, enabled |-> sv.enabled]
         a == AfterToken(r.kind, r.shopArg, data.access_token, st, o2)
     IN IF sv.threw
        THEN RefreshCatch(r, st, o2, Some(data), "threw")
        ELSE /\ tokenFile' = sv.file
             /\ fileStorageEnabled' = a.enabled
             /\ tools' = WithNext(Without(tools, r), a.next)
             /\ ev' = [op |-> "tool", step |-> "refreshed", kind |-> r.kind,
                       gvat |-> Some([ret |-> "token", tok |-> data.access_token]),
                       refreshCalls |-> 1, refreshed |-> Some(data),
                       saved |-> SaveKind(Store, sv), cleared |-> "none",
                       pet |-> r.pet, at |-> now,
                       result |-> a.result, call |-> IssuedCall(a.next)]

\* etsyApi.getListings returns or throws (lines 213-219).
ApiReturn(r, ok) ==
  /\ r \in BagToSet(tools)
  /\ r.pc = "api"
  /\ tools' = Without(tools, r)
  /\ ev' = [op |-> "tool", step |-> "api", kind |-> r.kind,
            gvat |-> None, refreshCalls |-> 0, ok |-> ok,
            result |-> Some(IF ok THEN ToolOk("listings") ELSE handleError(MsgFailed)),
            call |-> None]
  /\ UNCHANGED <<server, pkce, issued, now, nextSweep, tokenFile, fileStorageEnabled, stateStore, cbs, usedSinceIssue>>

\* The argument of saveTokens in set_default_shop, lines 140-145.
DefaultShopSaveArg(tokens, shop) ==
  [access_token |-> tokens.access_token,
   refresh_token |-> tokens.refresh_token,
   expires_in |-> None,
   expires_at |-> tokens.expires_at,
   user_id |-> tokens.user_id,
   shop_id |-> shop.shop_id,
   shop_name |-> shop.shop_name]

\* getUserShops returns or throws in set_default_shop (lines 112-157).
DefaultShopReturn(r, shopResp, os) ==
  /\ r \in BagToSet(tools)
  /\ r.pc = "sdsShops"
  /\ tools' = Without(tools, r)
  /\ UNCHANGED <<server, pkce, issued, now, nextSweep, stateStore, cbs, usedSinceIssue>>
  /\ LET shop == shopToSet(shopResp)
         sv == saveTokens(Store, DefaultShopSaveArg(r.tokens, shop), os)
     IN IF shopResp = "fail" \/ shop = NoShop
        THEN /\ UNCHANGED <<tokenFile, fileStorageEnabled>>
             /\ ev' = [op |-> "tool", step |-> "shops", kind |-> r.kind,
                       gvat |-> None, refreshCalls |-> 0, saved |-> "none",
                       result |-> Some(IF shopResp = "fail" THEN handleError(MsgFailed)
                                       ELSE ToolOk(MsgNoShops)),
                       call |-> None]
        ELSE /\ tokenFile' = sv.file
             /\ fileStorageEnabled' = sv.enabled
             /\ ev' = [op |-> "tool", step |-> "shops", kind |-> r.kind,
                       gvat |-> None, refreshCalls |-> 0, saved |-> SaveKind(Store, sv),
                       result |-> Some(IF sv.threw THEN handleError(MsgFailed)
                                       ELSE ToolOk("Default shop set")),
                       call |-> None]

\* The first call of generatePKCE, with the bytes crypto.randomBytes returns.
GeneratePKCE(bytes) ==
  /\ pkce = None
  /\ LET pair == generatePKCE(bytes)
     IN pkce' = Some([bytes |-> bytes,
                      codeVerifier |-> pair.codeVerifier,
                      codeChallenge |-> pair.codeChallenge])
  /\ ev' = [op |-> "pkce"]
  /\ UNCHANGED <<server, issued, now, nextSweep, tokenFile, fileStorageEnabled, stateStore,
                 cbs, usedSinceIssue, tools>>

\* ------------------------------------------ OAuthServer.start, authenticate
MsgAuthUrl == "Please visit this URL to authorize the application"
MsgAuthFailed == "Failed to initiate authentication"

\* What app.listen leads to: the 'listening' event, or an 'error' event with
\* code EADDRINUSE or with another code.
ListenOutcomes == {"listening", "EADDRINUSE", "other"}

\* A start that rejects whenever it did not get the port.
startSettles_Strict(outcome) == IF outcome = "listening" THEN "resolved" ELSE "rejected"

\* start, oauthServer.ts lines 229-255: how the promise settles.
startSettles(outcome) == IF outcome = "other" THEN "rejected" ELSE "resolved"

\* this.server after the event (lines 229, 248, 252).
serverAfter(outcome) == IF outcome = "listening" THEN "listening" ELSE "null"

\* The authenticate tool (mcpServer.ts lines 68-87) up to the settling of
\* start(): with a server object start resolves at once (oauthServer.ts lines
\* 224-228), else it calls app.listen and awaits the event.
Authenticate ==
  /\ UNCHANGED <<pkce, issued, now, nextSweep, tokenFile, fileStorageEnabled, stateStore,
                 cbs, usedSinceIssue>>
  /\ IF server # "null"
     THEN /\ UNCHANGED <<server, tools>>
          /\ ev' = [op |-> "authenticate", listen |-> FALSE, settled |-> "resolved",
                    result |-> Some(ToolOk(MsgAuthUrl))]
     ELSE /\ server' = "starting"
          /\ tools' = With(tools, [pc |-> "starting", kind |-> "authenticate"])
          /\ ev' = [op |-> "authenticate", listen |-> TRUE, settled |-> "pending",
                    result |-> None]

\* The listener's event arrives: start() settles and the authenticate tool
\* returns the URL, or the error result of its catch.
ListenSettles(r, outcome) ==
  /\ r \in BagToSet(tools)
  /\ r.pc = "starting"
  /\ server' = serverAfter(outcome)
  /\ tools' = Without(tools, r)
  /\ ev' = [op |-> "listen", outcome |-> outcome, settled |-> startSettles(outcome),
            result |-> Some(IF startSettles(outcome) = "resolved"
                            THEN ToolOk(MsgAuthUrl) ELSE handleError(MsgAuthFailed))]
  /\ UNCHANGED <<pkce, issued, now, nextSweep, tokenFile, fileStorageEnabled, stateStore,
                 cbs, usedSinceIssue>>

\* ------------------------------------------------- TokenStorage operations
\* Arguments of saveTokens: from a code exchange (expires_in), from a refresh
\* or set_default_shop (expires_at), with neither, and without the user id
\* and the shop.
SaveArg(access, refresh, ein, eat, uid, shop) ==
  [access_token |-> access, refresh_token |-> refresh, expires_in |-> ein,
   expires_at |-> eat, user_id |-> uid, shop_id |-> shop.shop_id,
   shop_name |-> shop.shop_name]

SaveInputs ==
  { SaveArg(TokenA, Some("r1"), Some(60), None, Some(7), Shop5),
    SaveArg(TokenB, Some("r2"), None, Some(2 * TickMs), Some(7), Shop5),
    SaveArg(TokenB, Some("r2"), None, None, None, NoShop),
    SaveArg(TokenX, None, Some(60), None, None, NoShop) }

\* What a write of the token file met.
WriteOutcome(st, out) == IF ~st.enabled THEN "disabled" ELSE out

\* One call of saveTokens.
StoreSave(tokens, out) ==
  LET res == saveTokens(Store, tokens, out)
  IN /\ tokenFile' = res.file
     /\ fileStorageEnabled' = res.enabled
     /\ ev' = [op |-> "save", arg |-> tokens, out |-> WriteOutcome(Store, out),
               threw |-> res.threw, prev |-> tokenFile, at |-> now]
     /\ UNCHANGED <<server, pkce, issued, now, nextSweep, stateStore, cbs, usedSinceIssue, tools>>

\* A getTokens that deletes the record it finds expired.
StoreGet_Evicts(out) ==
  LET g == getTokens(Store, out)
  IN /\ fileStorageEnabled' = g.enabled
     /\ tokenFile' = IF ReadOutcome(Store, out) = "ok" /\ g.ret = None THEN None ELSE tokenFile
     /\ ev' = [op |-> "get", out |-> ReadOutcome(Store, out), ret |-> g.ret,
               threw |-> FALSE, at |-> now]
     /\ UNCHANGED <<server, pkce, issued, now, nextSweep, stateStore, cbs, usedSinceIssue, tools>>

\* One call of getTokens.
StoreGet(out) ==
  LET g == getTokens(Store, out)
  IN /\ fileStorageEnabled' = g.enabled
     /\ ev' = [op |-> "get", out |-> ReadOutcome(Store, out), ret |-> g.ret,
               threw |-> FALSE, at |-> now]
     /\ UNCHANGED <<server, pkce, issued, now, nextSweep, tokenFile, stateStore, cbs, usedSinceIssue, tools>>

\* A load answered from a copy of the record kept in memory: what the file
\* held before another process changed it.
StoreLoad_Cached(out) ==
  LET g == loadPotentiallyExpiredTokens(Store, out)
  IN /\ fileStorageEnabled' = g.enabled
     /\ ev' = [op |-> "load", out |-> ReadOutcome(Store, out),
               ret |-> IF ev.op = "extern" /\ ReadOutcome(Store, out) \in {"ok", "nofile"}
                       THEN ev.prev ELSE g.ret,
               threw |-> FALSE, at |-> now]
     /\ UNCHANGED <<server, pkce, issued, now, nextSweep, tokenFile, stateStore, cbs, usedSinceIssue, tools>>

\* One call of loadPotentiallyExpiredTokens.
StoreLoad(out) ==
  LET g == loadPotentiallyExpiredTokens(Store, out)
  IN /\ fileStorageEnabled' = g.enabled
     /\ ev' = [op |-> "load", out |-> ReadOutcome(Store, out), ret |-> g.ret,
               threw |-> FALSE, at |-> now]
     /\ UNCHANGED <<server, pkce, issued, now, nextSweep, tokenFile, stateStore, cbs, usedSinceIssue, tools>>

\* One call of clearTokens.
StoreClear(out) ==
  LET cl == clearTokens(Store, out)
  IN /\ tokenFile' = cl.file
     /\ fileStorageEnabled' = cl.enabled
     /\ ev' = [op |-> "clear", out |-> ReadOutcome(Store, out), threw |-> cl.threw,
               at |-> now]
     /\ UNCHANGED <<server, pkce, issued, now, nextSweep, stateStore, cbs, usedSinceIssue, tools>>

\* --------------------------------------------------------- specifications
\* The state after construction: the TokenStorage constructor may have
\* disabled the store (lines 32-37).
Init ==
  /\ now = T0
  /\ tokenFile = None
  /\ fileStorageEnabled \in BOOLEAN
  /\ stateStore = [s \in States |-> None]
  /\ nextSweep = T0 + SweepInterval
  /\ cbs = EmptyBag
  /\ usedSinceIssue = [s \in States |-> 0]
  /\ ev = [op |-> "init"]
  /\ tools = EmptyBag
  /\ server = "null"
  /\ issued = [s \in States |-> None]
  /\ pkce = None

\* The outcomes a file-system call can have in the current state: the reads
\* and the unlink are made only by an enabled store whose file exists, the
\* write only by an enabled store.
ReadOutcomes == IF fileStorageEnabled /\ IsSome(tokenFile) THEN FsOutcomes ELSE {"ok"}
WriteOutcomes == IF fileStorageEnabled THEN FsOutcomes ELSE {"ok"}

\* The requests of each kind awaiting the provider.
InFlight(bag, pc) == {r \in BagToSet(bag) : r.pc = pc}

\* The callback route with every kind of request and every answer of the
\* provider and of the file system. One state value is issued, so that the
\* other one is a state that was never issued.
NextAuth ==
  \/ Tick(MaxAuthTicks)
  \/ Sweep
  \/ Auth("s1", "v1")
  \/ \E q \in Queries : Callback(q, MaxCallbacks)
  \/ \E r \in InFlight(cbs, "exchanging") : ExchangeFails(r)
  \/ \E r \in InFlight(cbs, "exchanging"), d \in ExchangeResponses, o \in WriteOutcomes :
        ExchangeSucceeds(r, d, o)
  \/ \E r \in InFlight(cbs, "shops"), a \in ShopResponses, o \in WriteOutcomes :
        ShopsReturn(r, a, o)

SpecAuth == Init /\ [][NextAuth]_vars

\* The callback route when every call to the provider returns or throws:
\* the requests that can await the provider, and the continuation of each.
CbRequests ==
  { [pc |-> "exchanging", state |-> "s1", code |-> "abc", codeVerifier |-> "v1"] }
  \cup
  { [pc |-> "shops", state |-> "s1", code |-> "abc", codeVerifier |-> "v1",
     tokens |-> getAccessTokenFromCode(d)] : d \in ExchangeResponses }

AnswerOf(r) ==
  \/ ExchangeFails(r)
  \/ \E d \in ExchangeResponses, o \in WriteOutcomes : ExchangeSucceeds(r, d, o)
  \/ \E a \in ShopResponses, o \in WriteOutcomes : ShopsReturn(r, a, o)

NextCallback ==
  \/ Auth("s1", "v1")
  \/ \E q \in Queries : Callback(q, MaxFairCallbacks)
  \/ \E r \in CbRequests : AnswerOf(r)

SpecAuthFair ==
  Init /\ [][NextCallback]_vars /\ \A r \in CbRequests : WF_vars(AnswerOf(r))

\* The state store over the lifetime of its entries: the provider's answers
\* do not touch the state store, so every exchange fails here.
NextSweep ==
  \/ Tick(MaxTicks)
  \/ Sweep
  \/ \E s \in States, v \in Verifiers : Auth(s, v)
  \/ \E q \in WellFormed : Callback(q, MaxCallbacks)
  \/ \E r \in InFlight(cbs, "exchanging") : ExchangeFails(r)

SpecSweep == Init /\ [][NextSweep]_vars

\* The state store with a clock that keeps advancing and a timer that keeps
\* firing (setInterval, line 38), up to the last clock value of the model.
NextSweepLive ==
  \/ Tick(MaxLiveTicks)
  \/ Sweep
  \/ \E s \in States : Auth(s, "v1")
  \/ \E q \in WellFormed : Callback(q, 1)
  \/ \E r \in InFlight(cbs, "exchanging") : ExchangeFails(r)

SpecSweepLive ==
  Init /\ [][NextSweepLive]_vars /\ WF_vars(Tick(MaxLiveTicks)) /\ WF_vars(Sweep)

\* The entries the clock of SpecSweepLive can outlive by the TTL and one
\* sweep interval.
OutlivedEntries ==
  { [codeVerifier |-> "v1", createdAt |-> T0 + k * TickMs] :
      k \in { j \in 0..MaxLiveTicks :
                (T0 + j * TickMs) + stateTTL + SweepInterval <= T0 + MaxLiveTicks * TickMs } }

\* The tool invocations and the token file. One authorization attempt at a
\* time puts records into the file: with and without a refresh token, a user
\* id and a default shop. get_listings is called without a shop_id, so that
\* it reads the stored default shop.
ToolExchangeResponses == {d \in ExchangeResponses : IsSome(d.expires_in)}
ToolRefreshResponses == {d \in RefreshResponses : IsSome(d.expires_in)}

NextTool ==
  \/ Tick(MaxToolTicks)
  \/ Sweep
  \/ Auth("s1", "v1")
  \/ Callback(Query(<<>>, <<"abc">>, <<"s1">>), 1)
  \/ \E r \in InFlight(cbs, "exchanging") : ExchangeFails(r)
  \/ \E r \in InFlight(cbs, "exchanging"), d \in ToolExchangeResponses :
        ExchangeSucceeds(r, d, "ok")
  \/ \E r \in InFlight(cbs, "shops") : ShopsReturn(r, "list", "ok")
  \/ \E o1, o2 \in ReadOutcomes : ToolStart("get_listings", None, o1, o2, MaxTools)
  \/ \E r \in InFlight(tools, "refreshing"), oc \in ReadOutcomes : RefreshFails(r, oc)
  \/ \E r \in InFlight(tools, "refreshing"), d \in ToolRefreshResponses,
        os, o2 \in WriteOutcomes : RefreshSucceeds(r, d, os, o2)
  \/ \E r \in InFlight(tools, "api"), ok \in BOOLEAN : ApiReturn(r, ok)

SpecTool == Init /\ [][NextTool]_vars

\* set_default_shop invocations that overlap each other and an authorization,
\* on a file system without errors, each with a refresh when the stored
\* access token has expired. The authorization stores a record with a
\* refresh token.
RaceExchangeResponses == {d \in ToolExchangeResponses : IsSome(d.refresh_token)}

NextRace ==
  \/ Tick(MaxRaceTicks)
  \/ Sweep
  \/ Auth("s1", "v1")
  \/ Callback(Query(<<>>, <<"abc">>, <<"s1">>), 1)
  \/ \E r \in InFlight(cbs, "exchanging"), d \in RaceExchangeResponses :
        ExchangeSucceeds(r, d, "ok")
  \/ \E r \in InFlight(cbs, "shops") : ShopsReturn(r, "list", "ok")
  \/ ToolStart("set_default_shop", None, "ok", "ok", MaxRaceTools)
  \/ \E r \in InFlight(tools, "refreshing") : RefreshFails(r, "ok")
  \/ \E r \in InFlight(tools, "refreshing"), d \in ToolRefreshResponses :
        RefreshSucceeds(r, d, "ok", "ok")
  \/ \E r \in InFlight(tools, "sdsShops"), a \in {"single", "fail"} :
        DefaultShopReturn(r, a, "ok")

SpecRace == Init /\ [][NextRace]_vars

\* set_default_shop next to get_listings invocations whose access token has
\* expired: the refresh of one invocation overlaps the getUserShops call of
\* the other. set_default_shop is started when no other invocation awaits
\* the provider.
NextShopRace ==
  \/ Tick(MaxShopRaceTicks)
  \/ Sweep
  \/ Auth("s1", "v1")
  \/ Callback(Query(<<>>, <<"abc">>, <<"s1">>), 1)
  \/ \E r \in InFlight(cbs, "exchanging"), d \in RaceExchangeResponses :
        ExchangeSucceeds(r, d, "ok")
  \/ \E r \in InFlight(cbs, "shops") : ShopsReturn(r, "list", "ok")
  \/ ToolStart("set_default_shop", None, "ok", "ok", 1)
  \/ ToolStart("get_listings", None, "ok", "ok", MaxShopRaceTools)
  \/ \E r \in InFlight(tools, "refreshing"), d \in ToolRefreshResponses :
        RefreshSucceeds(r, d, "ok", "ok")
  \/ \E r \in InFlight(tools, "api") : ApiReturn(r, TRUE)
  \/ \E r \in InFlight(tools, "sdsShops") : DefaultShopReturn(r, "single", "ok")

SpecShopRace == Init /\ [][NextShopRace]_vars

\* The public operations of TokenStorage, called in any order with every
\* outcome of the file system.
\* Two tool invocations at a time, and two distinguishable answers of the
\* token endpoint to a refresh.
ConcurrentRefreshResponses ==
  { [access_token |-> TokenB, refresh_token |-> Some("r2"), expires_in |-> Some(60)],
    [access_token |-> TokenC, refresh_token |-> Some("r3"), expires_in |-> Some(120)] }

NextRefresh ==
  \/ Tick(MaxRefreshTicks)
  \/ Sweep
  \/ Auth("s1", "v1")
  \/ Callback(Query(<<>>, <<"abc">>, <<"s1">>), 1)
  \/ \E r \in InFlight(cbs, "exchanging"), d \in RaceExchangeResponses :
        ExchangeSucceeds(r, d, "ok")
  \/ \E r \in InFlight(cbs, "shops") : ShopsReturn(r, "list", "ok")
  \/ ToolStart("get_listings", None, "ok", "ok", MaxRefreshTools)
  \/ \E r \in InFlight(tools, "refreshing") : RefreshFails(r, "ok")
  \/ \E r \in InFlight(tools, "refreshing"), d \in ConcurrentRefreshResponses :
        RefreshSucceeds(r, d, "ok", "ok")
  \/ \E r \in InFlight(tools, "api"), ok \in BOOLEAN : ApiReturn(r, ok)

SpecRefresh == Init /\ [][NextRefresh]_vars

\* get_listings with and without a shop_id, over records with and without a
\* default shop.
NextShop ==
  \/ Auth("s1", "v1")
  \/ Callback(Query(<<>>, <<"abc">>, <<"s1">>), 1)
  \/ \E r \in InFlight(cbs, "exchanging"), d \in RaceExchangeResponses :
        ExchangeSucceeds(r, d, "ok")
  \/ \E r \in InFlight(cbs, "shops"), a \in ShopResponses : ShopsReturn(r, a, "ok")
  \/ \E a \in ShopArgs : ToolStart("get_listings", a, "ok", "ok", MaxShopTools)
  \/ \E r \in InFlight(tools, "api"), ok \in BOOLEAN : ApiReturn(r, ok)

SpecShop == Init /\ [][NextShop]_vars

NextPkce == \E bytes \in RandomInputs : GeneratePKCE(bytes)

SpecPkce == Init /\ [][NextPkce]_vars

\* The listener and the routes it serves.
NextListen ==
  \/ Tick(MaxListenTicks)
  \/ Sweep
  \/ Authenticate
  \/ \E r \in InFlight(tools, "starting"), o \in ListenOutcomes : ListenSettles(r, o)
  \/ server = "listening" /\ \E s \in States, v \in Verifiers : Auth(s, v)
  \/ server = "listening" /\ \E q \in WellFormed : Callback(q, 1)
  \/ \E r \in InFlight(cbs, "exchanging") : ExchangeFails(r)

SpecListen == Init /\ [][NextListen]_vars

NextStore ==
  \/ Tick(MaxStoreTicks)
  \/ Sweep
  \/ \E t \in SaveInputs, o \in WriteOutcomes : StoreSave(t, o)
  \/ \E o \in ReadOutcomes : StoreGet(o)
  \/ \E o \in ReadOutcomes : StoreLoad(o)
  \/ \E o \in ReadOutcomes : StoreClear(o)

SpecStore == Init /\ [][NextStore]_vars

\* The records another process leaves in the token file (tokens.json under
\* the configured storage path): one that is valid for a while, one that has
\* expired, one without expires_at.
ExternalRecords ==
  { [access_token |-> TokenC, refresh_token |-> Some("r9"), user_id |-> Some(7),
     shop_id |-> None, shop_name |-> None, expires_at |-> e] :
       e \in {Some(T0 + TickMs), Some(T0 - 1), None} }

\* Another process writes or replaces the token file.
ExternalWrite(rec) ==
  /\ tokenFile' = Some(rec)
  /\ ev' = [op |-> "extern", prev |-> tokenFile]
  /\ UNCHANGED <<server, pkce, issued, now, nextSweep, fileStorageEnabled, stateStore, cbs,
                 usedSinceIssue, tools>>

\* Another process deletes the token file.
ExternalDelete ==
  /\ IsSome(tokenFile)
  /\ tokenFile' = None
  /\ ev' = [op |-> "extern", prev |-> tokenFile]
  /\ UNCHANGED <<server, pkce, issued, now, nextSweep, fileStorageEnabled, stateStore, cbs,
                 usedSinceIssue, tools>>

\* The token store of one process next to another process working on the
\* same file.
NextShared ==
  \/ Tick(MaxSharedTicks)
  \/ Sweep
  \/ \E t \in SaveInputs, o \in WriteOutcomes : StoreSave(t, o)
  \/ \E o \in ReadOutcomes : StoreGet(o)
  \/ \E o \in ReadOutcomes : StoreLoad(o)
  \/ \E o \in ReadOutcomes : StoreClear(o)
  \/ \E rec \in ExternalRecords : ExternalWrite(rec)
  \/ ExternalDelete

SpecShared == Init /\ [][NextShared]_vars

\* ------------------------------------------------------------ properties
\* C1: a state value is single-use. Between two GET /auth requests that
\* issue it, at most one callback carrying it finds the pending entry and
\* starts a code exchange; every callback that carries it after that one is
\* rejected with "Invalid or expired state parameter" and starts no exchange,
\* whether the first one's exchange is still awaited, succeeded or failed.
C1_SingleUse ==
  [][ /\ \A s \in States : usedSinceIssue'[s] <= 1
      /\ \A s \in States :
           ( /\ ev'.op = "callback"
             /\ ev'.q.error = <<>> /\ ev'.q.code = <<"abc">> /\ ev'.q.state = <<s>>
             /\ usedSinceIssue[s] >= 1 )
           => ( /\ ev'.status = Some(500)
                /\ ev'.msg = MsgInvalidState
                /\ ev'.exchange = None
                /\ cbs' = cbs ) ]_vars

\* A callback was rejected for a state that an earlier callback had used.
C1_Witness ==
  /\ ev.op = "callback"
  /\ ev.q = Query(<<>>, <<"abc">>, <<"s1">>)
  /\ ev.msg = MsgInvalidState
  /\ usedSinceIssue["s1"] = 1

\* C2: a pending state created at time T by GET /auth is absent from the
\* state store at every time >= T + TTL, and a callback that carries it at
\* such a time is rejected and starts no exchange.
C2_AbsentAfterTTL ==
  [][ /\ \A s \in States :
           IsSome(stateStore'[s]) => now' < Val(stateStore'[s]).createdAt + stateTTL
      /\ \A s \in States :
           ( /\ ev'.op = "callback"
             /\ ev'.q.state = <<s>>
             /\ IsSome(stateStore[s])
             /\ now >= Val(stateStore[s]).createdAt + stateTTL )
           => ( ev'.status = Some(500) /\ ev'.exchange = None ) ]_vars

C4_RefreshKeepsIdentity ==
  /\ ( /\ ev.op = "tool" /\ ev.step = "start"
       /\ ev.readOut = "ok" /\ ev.loadOut = "ok"
       /\ Val(Val(tokenFile).expires_at) < now
       /\ IsSome(Val(tokenFile).refresh_token) )
     => ( /\ ev.refreshCalls = 1
          /\ ev.gvat = None
          /\ \E r \in BagToSet(tools) :
                r.pc = "refreshing" /\ r.pet = Kept(Val(tokenFile)) )
  /\ ( /\ ev.op = "tool" /\ ev.step = "refreshed"
       /\ IsSome(ev.refreshed) /\ ev.saved = "written" )
     => ( /\ ev.refreshCalls = 1
          /\ ev.gvat = Some([ret |-> "token", tok |-> Val(ev.refreshed).access_token])
          /\ tokenFile =
               Some([access_token |-> Val(ev.refreshed).access_token,
                     refresh_token |-> Val(ev.refreshed).refresh_token,
                     expires_at |-> Some(ev.at + Val(Val(ev.refreshed).expires_in) * 1000),
                     user_id |-> ev.pet.user_id,
                     shop_id |-> ev.pet.shop_id,
                     shop_name |-> ev.pet.shop_name]) )

\* A refresh of a record with a user id and a default shop succeeded and was
\* written.
C4_Witness ==
  /\ ev.op = "tool" /\ ev.step = "refreshed"
  /\ IsSome(ev.refreshed) /\ ev.saved = "written"
  /\ ev.pet.user_id = Some(7) /\ ev.pet.shop_id = Some(5)
  /\ Val(tokenFile).access_token = TokenB

\* C5: when the refresh exchange fails, getValidAccessToken returns null and
\* the record is cleared: getTokens and loadPotentiallyExpiredTokens both
\* return null afterwards, so that no later call refreshes with the stale
\* refresh token.
C5_FailedRefreshClears ==
  (ev.op = "tool" /\ ev.step = "refreshed" /\ ev.refreshed = None)
  => ( /\ ev.gvat = Some([ret |-> "null", tok |-> <<>>])
       /\ getTokens(Store, "ok").ret = None
       /\ loadPotentiallyExpiredTokens(Store, "ok").ret = None )

\* C6: getValidAccessToken never throws: whatever the storage reads, the
\* refresh exchange, the save and the clear do, it completes with an access
\* token or with null.
C6_NeverThrows ==
  (ev.op = "tool" /\ IsSome(ev.gvat)) => Val(ev.gvat).ret \in {"token", "null"}

C8_ExchangePersists ==
  ( /\ ev.op = "cbdone" /\ IsSome(ev.tokens)
    /\ IsSome(Val(ev.tokens).expires_in)
    /\ ev.saved = "written" )
  => ( /\ IsSome(tokenFile)
       /\ Val(tokenFile).access_token = Val(ev.tokens).access_token
       /\ Val(tokenFile).refresh_token = Val(ev.tokens).refresh_token
       /\ Val(tokenFile).user_id = parseInt(FirstSegment(Val(ev.tokens).access_token))
       /\ (Val(ev.tokens).access_token = TokenA => Val(tokenFile).user_id = Some(7))
       /\ Val(tokenFile).expires_at =
            Some(ev.at + Val(Val(ev.tokens).expires_in) * 1000) )

\* The exchange for state s1 returned the token "7.a" for 60 seconds and the
\* record was written.
C8_Witness ==
  /\ ev.op = "cbdone" /\ ev.state = "s1" /\ ev.saved = "written"
  /\ Val(ev.tokens).access_token = TokenA
  /\ Val(ev.tokens).expires_in = Some(60)
  /\ Val(tokenFile).user_id = Some(7)
  /\ Val(tokenFile).expires_at = Some(now + 60000)

\* C9: when the code exchange of a callback fails, the token store holds
\* exactly what it held before (a stored record is neither overwritten nor
\* removed) and the callback is answered with the failure page.
C9_FailedExchangeKeepsStore ==
  [][ (ev'.op = "cbdone" /\ ev'.tokens = None)
      => ( /\ tokenFile' = tokenFile
           /\ fileStorageEnabled' = fileStorageEnabled
           /\ ev'.status = 500
           /\ ev'.msg = MsgExchangeFailed
           /\ ev'.saved = "none" ) ]_vars

\* An exchange failed while a record of an earlier authorization was stored.
C9_Witness ==
  /\ ev.op = "cbdone" /\ ev.tokens = None /\ ev.status = 500
  /\ IsSome(tokenFile)

\* C10: when the shop lookup after a successful exchange fails, the callback
\* is answered with the success page unless the save itself throws, and a
\* store that writes the file holds the record with the access token, refresh
\* token, user_id and expires_at of the exchange and no shop_id or shop_name.
C10_ShopLookupFailure ==
  (ev.op = "cbdone" /\ ev.shopResp = "fail")
  => ( /\ ev.saved # "threw" => (ev.status = 200 /\ ev.msg = MsgSuccess)
       /\ ev.saved = "written" =>
            tokenFile =
              Some([access_token |-> Val(ev.tokens).access_token,
                    refresh_token |-> Val(ev.tokens).refresh_token,
                    user_id |-> Val(ev.tokens).user_id,
                    shop_id |-> None,
                    shop_name |-> None,
                    expires_at |-> Some(newExpiresAt(
                       [expires_in |-> Val(ev.tokens).expires_in, expires_at |-> None]))]) )

\* The shop lookup failed, the success page was sent and the record without
\* a shop was written.
C10_Witness ==
  /\ ev.op = "cbdone" /\ ev.shopResp = "fail"
  /\ ev.status = 200 /\ ev.saved = "written"
  /\ Val(tokenFile).shop_id = None
  /\ Val(tokenFile).user_id = Some(7)

\* C11: once a TokenStorage operation has met EROFS/EACCES the store is
\* disabled for good: a disabled store stays disabled, its file is never
\* written or removed, saveTokens and clearTokens complete without throwing,
\* and getTokens and loadPotentiallyExpiredTokens return null.
C11_DisabledMode ==
  [][ /\ ( /\ ev'.op \in {"save", "get", "load", "clear"}
           /\ ev'.out = "perm" )
         => ( /\ fileStorageEnabled' = FALSE
              /\ tokenFile' = tokenFile
              /\ ev'.threw = FALSE )
      /\ fileStorageEnabled = FALSE
         => ( /\ fileStorageEnabled' = FALSE
              /\ tokenFile' = tokenFile
              /\ ev'.op \in {"save", "clear"} => ev'.threw = FALSE
              /\ ev'.op \in {"get", "load"} => ev'.ret = None ) ]_vars

\* saveTokens was called on a store that a failed read had disabled while a
\* record was in the file.
C11_Witness ==
  /\ ev.op = "save" /\ ev.out = "disabled"
  /\ fileStorageEnabled = FALSE
  /\ IsSome(tokenFile)

\* C12 (as the code has it): saveTokens replaces the stored record by the
\* given fields: after a save that wrote the file, access_token,
\* refresh_token, user_id, shop_id and shop_name are those of the update, so a
\* user id or shop that the update omits is no longer in the record.
C12_SaveReplaces ==
  (ev.op = "save" /\ ev.out = "ok")
  => ( /\ IsSome(tokenFile)
       /\ Val(tokenFile).access_token = ev.arg.access_token
       /\ Val(tokenFile).refresh_token = ev.arg.refresh_token
       /\ Val(tokenFile).user_id = ev.arg.user_id
       /\ Val(tokenFile).shop_id = ev.arg.shop_id
       /\ Val(tokenFile).shop_name = ev.arg.shop_name )

\* C12 (as stated): saveTokens merges the update into the stored record: a
\* user_id, shop_id or shop_name that the update omits keeps the value stored
\* before the save.
C12_SaveMerges ==
  (ev.op = "save" /\ ev.out = "ok" /\ IsSome(ev.prev))
  => ( /\ ev.arg.user_id = None => Val(tokenFile).user_id = Val(ev.prev).user_id
       /\ ev.arg.shop_id = None => Val(tokenFile).shop_id = Val(ev.prev).shop_id
       /\ ev.arg.shop_name = None => Val(tokenFile).shop_name = Val(ev.prev).shop_name )

\* An update without user id and shop was written over a record that had both.
C12_Witness ==
  /\ ev.op = "save" /\ ev.out = "ok"
  /\ IsSome(ev.prev)
  /\ Val(ev.prev).user_id = Some(7) /\ Val(ev.prev).shop_id = Some(5)
  /\ ev.arg.user_id = None /\ ev.arg.shop_id = None
  /\ Val(tokenFile).user_id = None /\ Val(tokenFile).shop_id = None

\* C13 (as the code has it): every record written by saveTokens has
\* expires_at set: write-time now + expires_in*1000 when the caller gives
\* expires_in, else the expires_at the caller passed, else write-time now +
\* one hour.
C13_ExpiresAtRule ==
  /\ IsSome(tokenFile) => IsSome(Val(tokenFile).expires_at)
  /\ (ev.op = "save" /\ ev.out = "ok")
     => Val(tokenFile).expires_at =
          IF IsSome(ev.arg.expires_in)
          THEN Some(ev.at + Val(ev.arg.expires_in) * 1000)
          ELSE IF IsSome(ev.arg.expires_at)
          THEN ev.arg.expires_at
          ELSE Some(ev.at + 60 * 60 * 1000)

\* C13 (as stated): every record written by saveTokens has expires_at set,
\* and its value is write-time now + expires_in*1000 for a caller that gives
\* expires_in or the expires_at the caller passed; no other value is stored.
C13_OnlyDerivedOrPassed ==
  /\ IsSome(tokenFile) => IsSome(Val(tokenFile).expires_at)
  /\ (ev.op = "save" /\ ev.out = "ok")
     => \/ /\ IsSome(ev.arg.expires_in)
           /\ Val(tokenFile).expires_at = Some(ev.at + Val(ev.arg.expires_in) * 1000)
        \/ /\ IsSome(ev.arg.expires_at)
           /\ Val(tokenFile).expires_at = ev.arg.expires_at

\* A save with neither expires_in nor expires_at wrote a record that expires
\* an hour later.
C13_Witness ==
  /\ ev.op = "save" /\ ev.out = "ok"
  /\ ev.arg.expires_in = None /\ ev.arg.expires_at = None
  /\ Val(tokenFile).expires_at = Some(now + DefaultLifetime)

\* C14: set_default_shop changes only shop_id and shop_name: whatever other
\* invocations and callbacks ran meanwhile, the access_token, refresh_token
\* and expires_at in the file right after its write are those in the file
\* right before its write.
C14_ShopOnly ==
  [][ (ev'.op = "tool" /\ ev'.step = "shops" /\ ev'.saved = "written")
      => ( /\ IsSome(tokenFile)
           /\ Val(tokenFile').access_token = Val(tokenFile).access_token
           /\ Val(tokenFile').refresh_token = Val(tokenFile).refresh_token
           /\ Val(tokenFile').expires_at = Val(tokenFile).expires_at ) ]_vars

\* C15: round trip: a getTokens that directly follows a saveTokens of a
\* record with expires_in > 0, both succeeding on an enabled store, returns a
\* record with the access_token, refresh_token, user_id, shop_id and shop_name
\* that were saved and expires_at = save-time now + expires_in*1000.
C15_RoundTrip ==
  [][ ( /\ ev.op = "save" /\ ev.out = "ok"
        /\ IsSome(ev.arg.expires_in) /\ Val(ev.arg.expires_in) > 0
        /\ ev'.op = "get" /\ ev'.out = "ok" )
      => ev'.ret =
           Some([access_token |-> ev.arg.access_token,
                 refresh_token |-> ev.arg.refresh_token,
                 user_id |-> ev.arg.user_id,
                 shop_id |-> ev.arg.shop_id,
                 shop_name |-> ev.arg.shop_name,
                 expires_at |-> Some(ev.at + Val(ev.arg.expires_in) * 1000)]) ]_vars

\* getTokens returned a record with user id and shop that was saved with
\* expires_in = 60 at the same instant.
C15_Witness ==
  /\ ev.op = "get" /\ ev.out = "ok"
  /\ IsSome(ev.ret)
  /\ Val(ev.ret).expires_at = Some(now + 60000)
  /\ Val(ev.ret).access_token = TokenA
  /\ Val(ev.ret).shop_name = Some("five")

\* C16: in a tool invocation the marketplace API call is issued only once
\* getValidAccessToken has returned a token, after the save of a refreshed
\* record has completed, and with exactly that token; while the refresh is
\* awaited no call is issued, and when getValidAccessToken returns null the
\* tool returns an isError result and issues no call.
C16_TokenBeforeCall ==
  ev.op = "tool"
  => ( /\ IsSome(ev.call)
          => ( /\ IsSome(ev.gvat)
               /\ Val(ev.gvat).ret = "token"
               /\ Val(ev.call).tok = Val(ev.gvat).tok
               /\ ev.step = "refreshed"
                  => ( /\ ev.saved \in {"written", "noop"}
                       /\ Val(ev.call).tok = Val(ev.refreshed).access_token )
               /\ \E r \in BagToSet(tools) :
                     r.pc \in {"api", "sdsShops"} /\ r.tok = Val(ev.gvat).tok )
       /\ (ev.step = "start" /\ ev.gvat = None) => ev.call = None
       /\ (IsSome(ev.gvat) /\ Val(ev.gvat).ret = "null")
          => ( /\ ev.call = None
               /\ IsSome(ev.result)
               /\ Val(ev.result).isError ) )

\* get_listings was called with the token of a refresh that had just been
\* written to the file.
C16_Witness ==
  /\ ev.op = "tool" /\ ev.step = "refreshed" /\ ev.saved = "written"
  /\ IsSome(ev.call)
  /\ Val(ev.call).api = "getListings"
  /\ Val(ev.call).tok = TokenB
  /\ Val(tokenFile).access_token = TokenB

\* C17: getValidAccessToken starts a refresh exchange if and only if
\* getTokens returned no record and loadPotentiallyExpiredTokens returned a
\* record with a refresh token. When getTokens returned a record, the call
\* returns that record's access token with no exchange; when there is no
\* record or it has no refresh token, it returns null with no exchange. In
\* all three cases the file is not written up to that point.
C17_RefreshExactlyWhenNeeded ==
  [][ (ev'.op = "tool" /\ ev'.step = "start")
      => ( /\ tokenFile' = tokenFile
           /\ ev'.refreshCalls = 1
              <=> ( /\ ev'.read = None
                    /\ ev'.loadOut = "ok"
                    /\ IsSome(Val(tokenFile).refresh_token) )
           /\ ev'.refreshCalls = 1
              => ( /\ ev'.gvat = None
                   /\ BagCardinality(tools') = BagCardinality(tools) + 1 )
           /\ IsSome(ev'.read)
              => ( /\ ev'.read = tokenFile
                   /\ ev'.refreshCalls = 0
                   /\ ev'.gvat = Some([ret |-> "token",
                                       tok |-> Val(tokenFile).access_token]) )
           /\ ( /\ ev'.read = None
                /\ \/ tokenFile = None
                   \/ ev'.loadOut # "ok"
                   \/ Val(tokenFile).refresh_token = None )
              => ( /\ ev'.refreshCalls = 0
                   /\ ev'.gvat = Some([ret |-> "null", tok |-> <<>>])
                   /\ tools' = tools ) ) ]_vars

\* getTokens returned nothing and the stored record had no refresh token:
\* null, and no exchange.
C17_Witness ==
  /\ ev.op = "tool" /\ ev.step = "start"
  /\ ev.read = None /\ ev.loadOut = "ok"
  /\ Val(tokenFile).refresh_token = None
  /\ ev.refreshCalls = 0
  /\ ev.gvat = Some([ret |-> "null", tok |-> <<>>])

\* C18: refreshes are not deduplicated: an invocation that finds an expired
\* record with a refresh token starts an exchange of its own even when an
\* equal one is in flight. Every exchange that succeeds makes its invocation
\* return the access token of its own response, and leaves in the file the
\* complete record of that response (access token, refresh token and
\* expires_at of the same response) with the user_id, shop_id and shop_name of
\* the expired record; the other invocation's exchange stays in flight.
C18_ConcurrentRefreshes ==
  [][ /\ ( /\ ev'.op = "tool" /\ ev'.step = "start"
           /\ fileStorageEnabled /\ tokenFile # None
           /\ Val(Val(tokenFile).expires_at) < now
           /\ IsSome(Val(tokenFile).refresh_token) )
         => ( /\ ev'.refreshCalls = 1
              /\ tools' = tools (+) SetToBag({[pc |-> "refreshing",
                                               kind |-> ev'.kind, shopArg |-> None,
                                               pet |-> Kept(Val(tokenFile))]}) )
      /\ ( /\ ev'.op = "tool" /\ ev'.step = "refreshed"
           /\ IsSome(ev'.refreshed) )
         => ( /\ ev'.gvat = Some([ret |-> "token",
                                  tok |-> Val(ev'.refreshed).access_token])
              /\ tokenFile' =
                   Some([access_token |-> Val(ev'.refreshed).access_token,
                         refresh_token |-> Val(ev'.refreshed).refresh_token,
                         expires_at |->
                           Some(now + Val(Val(ev'.refreshed).expires_in) * 1000),
                         user_id |-> ev'.pet.user_id,
                         shop_id |-> ev'.pet.shop_id,
                         shop_name |-> ev'.pet.shop_name])
              /\ \A r \in InFlight(tools', "refreshing") :
                    CopiesIn(r, tools') =
                      CopiesIn(r, tools) - (IF r.pet = ev'.pet THEN 1 ELSE 0) ) ]_vars

\* Two invocations found the record of the first authorization expired; one
\* refreshed to TokenB and is calling the API with it, and then the other's
\* exchange returned TokenC, which the file now holds with the same identity.
C18_Witness ==
  /\ ev.op = "tool" /\ ev.step = "refreshed"
  /\ ev.refreshed # None /\ Val(ev.refreshed).access_token = TokenC
  /\ ev.pet.refresh_token = Some("r1")
  /\ ev.gvat = Some([ret |-> "token", tok |-> TokenC])
  /\ \E r \in InFlight(tools, "api") : r.tok = TokenB
  /\ \E r \in InFlight(tools, "api") : r.tok = TokenC
  /\ tokenFile # None
  /\ Val(tokenFile).access_token = TokenC
  /\ Val(tokenFile).refresh_token = Some("r3")
  /\ Val(tokenFile).user_id = Some(7)
  /\ Val(tokenFile).shop_id = Some(5)

\* C19: the callback route and the tool handlers share one record. A
\* callback that completes with status 200 and a written file leaves the
\* access token of its exchange in the file, and from then on, while the file
\* holds a record of a code exchange that is not expired, storage is enabled
\* and reading the file does not fail,
\* getValidAccessToken in a tool invocation returns that record's access
\* token, with no refresh exchange and no write.
C19_SharedRecord ==
  [][ /\ ( /\ ev'.op = "cbdone" /\ ev'.status = 200 /\ ev'.saved = "written" )
         => ( /\ tokenFile' # None
              /\ Val(tokenFile').access_token = Val(ev'.tokens).access_token )
      /\ ( /\ ev'.op = "tool" /\ ev'.step = "start"
           /\ fileStorageEnabled
           /\ ev'.readOut \notin {"perm", "other"}
           /\ tokenFile # None
           /\ Val(tokenFile).access_token
                \in {d.access_token : d \in ExchangeResponses}
           /\ ~IsExpired(Val(tokenFile)) )
         => ( /\ ev'.gvat = Some([ret |-> "token",
                                  tok |-> Val(tokenFile).access_token])
              /\ ev'.refreshCalls = 0
              /\ InFlight(tools', "refreshing") = InFlight(tools, "refreshing")
              /\ tokenFile' = tokenFile ) ]_vars

\* One clock step after the callback stored TokenA for 60 seconds, a tool
\* invocation got TokenA from getValidAccessToken without a refresh.
C19_Witness ==
  /\ ev.op = "tool" /\ ev.step = "start"
  /\ ev.gvat = Some([ret |-> "token", tok |-> TokenA])
  /\ ev.refreshCalls = 0
  /\ tokenFile # None
  /\ Val(tokenFile).access_token = TokenA
  /\ Val(tokenFile).expires_at = Some(now)
  /\ now = T0 + TickMs

\* C20: every step of a tool invocation either leaves the invocation awaiting
\* the provider or ends it with a result. When getValidAccessToken returned
\* null or threw, when the refresh exchange failed, when saveTokens or
\* clearTokens threw, and when the API call failed, that result has isError
\* true.
C20_StructuredResult ==
  ev.op = "tool"
  => ( /\ ev.result = None
          => ( /\ ev.step \in {"start", "refreshed"}
               /\ \/ ev.call # None
                  \/ ev.step = "start" /\ ev.refreshCalls = 1 /\ ev.gvat = None )
       /\ ev.result # None => ev.call = None
       /\ ( /\ ev.gvat # None
            /\ Val(ev.gvat).ret \in {"null", "throw"} )
          => ( ev.result # None /\ Val(ev.result).isError )
       /\ ( /\ ev.step = "refreshed"
            /\ \/ ev.refreshed = None
               \/ ev.saved = "threw"
               \/ ev.cleared = "threw" )
          => ( ev.result # None /\ Val(ev.result).isError )
       /\ ev.step = "api"
          => ( /\ ev.result # None
               /\ ~ev.ok => Val(ev.result).isError ) )

\* The refresh failed and clearTokens threw inside getValidAccessToken; the
\* handler's catch turned it into an error result.
C20_Witness ==
  /\ ev.op = "tool" /\ ev.step = "refreshed"
  /\ ev.refreshed = None /\ ev.cleared = "threw"
  /\ ev.gvat = Some([ret |-> "throw", tok |-> <<>>])
  /\ ev.result = Some([isError |-> TRUE, text |-> MsgFailed])

\* C21: every callback request gets exactly one response. A request rejected
\* before the exchange is answered 500 at once and awaits nothing; an accepted
\* request awaits the provider without a response; the step that ends a
\* request answers it once, with 200 exactly when the exchange returned and
\* saveTokens did not throw, and with 500 otherwise; no other step removes a
\* request. When the provider's calls return, every awaiting request is
\* answered.
C21_OneResponse ==
  /\ [][ /\ ev'.op = "callback"
            => ( /\ ev'.status = Some(500)
                    <=> ( \/ IsSome(RejectedEarly(ev'.q))
                          \/ stateStore[ev'.q.state[1]] = None )
                 /\ ev'.status = Some(500) => cbs' = cbs
                 /\ ev'.status # Some(500)
                    => ( /\ ev'.status = None
                         /\ BagCardinality(cbs') = BagCardinality(cbs) + 1 ) )
         /\ ev'.op = "exchanged" => BagCardinality(cbs') = BagCardinality(cbs)
         /\ ev'.op = "cbdone"
            => ( /\ BagCardinality(cbs') = BagCardinality(cbs) - 1
                 /\ ev'.status \in {200, 500}
                 /\ ev'.status = 200
                    <=> (ev'.tokens # None /\ ev'.saved # "threw")
                 /\ ev'.status = 200 <=> ev'.msg = MsgSuccess )
         /\ ev'.op \notin {"callback", "exchanged", "cbdone"} => cbs' = cbs ]_vars
  /\ \A r \in CbRequests :
        (r \in BagToSet(cbs))
        ~> ( /\ ev.op = "cbdone" /\ ev.state = r.state
             /\ ev.code = r.code /\ ev.codeVerifier = r.codeVerifier )

\* The exchange returned tokens, saveTokens threw, and the request was
\* answered with status 500.
C21_Witness ==
  /\ ev.op = "cbdone"
  /\ ev.tokens # None /\ ev.saved = "threw"
  /\ ev.status = 500
  /\ cbs = EmptyBag

\* C22: once getValidAccessToken returned a token, a tool called with a
\* shop_id issues its API call for that shop; called without one, it issues
\* the call for the stored default shop_id; when there is neither, it returns
\* an error result and issues no call.
C22_ShopChoice ==
  ( /\ ev.op = "tool" /\ ev.step = "start"
    /\ ev.gvat # None /\ Val(ev.gvat).ret = "token" )
  => ( /\ ev.shopArg # None
          => ( /\ ev.call # None
               /\ Val(ev.call).shop = Val(ev.shopArg)
               /\ ev.result = None )
       /\ ( ev.shopArg = None /\ Val(tokenFile).shop_id # None )
          => ( /\ ev.call # None
               /\ Val(ev.call).shop = Val(Val(tokenFile).shop_id)
               /\ ev.result = None )
       /\ ( ev.shopArg = None /\ Val(tokenFile).shop_id = None )
          => ( /\ ev.call = None
               /\ ev.result # None /\ Val(ev.result).isError ) )

C24_ChallengeOfVerifier ==
  pkce # None
  => Val(pkce).codeChallenge = base64url_nopad(sha256(Val(pkce).codeVerifier))

\* A pair whose challenge has 43 characters, among them "-" and "_", where
\* the standard encoding has "+", "/" and a "=" at the end.
C24_Witness ==
  /\ pkce # None
  /\ Len(Val(pkce).codeChallenge) = 43
  /\ \E p \in 1..43 : Val(pkce).codeChallenge[p] = "-"
  /\ \E p \in 1..43 : Val(pkce).codeChallenge[p] = "_"
  /\ toBase64(sha256(Val(pkce).codeVerifier))[44] = "="

\* C25: every codeVerifier generatePKCE returns consists of characters in
\* [A-Za-z0-9] only and has exactly 128 characters, for every value of the
\* 32 random bytes.
C25_VerifierShape ==
  pkce # None
  => ( /\ \A p \in 1..Len(Val(pkce).codeVerifier) : IsAlnum(Val(pkce).codeVerifier[p])
       /\ Len(Val(pkce).codeVerifier) = 128 )

\* C26: clearTokens called when no record is stored does not throw and
\* leaves no record; clearTokens called right after a clearTokens that
\* returned does not throw and changes neither the file nor the flag.
C26_ClearIdempotent ==
  [][ ev'.op = "clear"
      => ( /\ tokenFile = None
              => ( /\ ~ev'.threw
                   /\ tokenFile' = None
                   /\ fileStorageEnabled' = fileStorageEnabled )
           /\ ( ev.op = "clear" /\ ~ev.threw )
              => ( /\ ~ev'.threw
                   /\ tokenFile' = tokenFile
                   /\ fileStorageEnabled' = fileStorageEnabled
                   /\ fileStorageEnabled => tokenFile' = None ) ) ]_vars

\* clearTokens was called by an enabled store that holds no record, and
\* returned.
C26_Witness ==
  /\ ev.op = "clear" /\ ev.out = "nofile"
  /\ ~ev.threw
  /\ fileStorageEnabled /\ tokenFile = None

\* C27: GET /auth stores the verifier generated in that request with the
\* state it issues and leaves the entries of other states as they are; no
\* other step changes the verifier of an entry; the code exchange started by
\* a callback with state s sends the verifier generated in the GET /auth that
\* last issued s.
C27_VerifierPerAttempt ==
  [][ /\ ev'.op = "auth"
         => ( /\ stateStore'[ev'.state] =
                   Some([codeVerifier |-> ev'.codeVerifier, createdAt |-> now])
              /\ issued'[ev'.state] = Some(ev'.codeVerifier)
              /\ \A s \in States \ {ev'.state} :
                    stateStore'[s] = stateStore[s] /\ issued'[s] = issued[s] )
      /\ ev'.op # "auth"
         => \A s \in States :
               stateStore'[s] # None => stateStore'[s] = stateStore[s]
      /\ ( ev'.op = "callback" /\ ev'.exchange # None )
         => ( /\ Val(ev'.exchange).codeVerifier = Val(issued[ev'.q.state[1]])
              /\ cbs' = cbs (+) SetToBag({[pc |-> "exchanging",
                                           state |-> ev'.q.state[1],
                                           code |-> Val(ev'.exchange).code,
                                           codeVerifier |-> Val(issued[ev'.q.state[1]])]}) )
    ]_vars

\* Two attempts were pending with different verifiers; the callback for s1
\* sent the verifier of s1, and the attempt for s2 is still pending with its
\* own.
C27_Witness ==
  /\ ev.op = "callback" /\ ev.exchange # None
  /\ ev.q.state = <<"s1">>
  /\ Val(ev.exchange).codeVerifier = "v2"
  /\ issued["s1"] = Some("v2")
  /\ stateStore["s2"] # None
  /\ Val(stateStore["s2"]).codeVerifier = "v1"

C29_EventuallySwept ==
  /\ [][ \A s \in States :
           ( stateStore[s] # None /\ stateStore'[s] # stateStore[s] )
           => ( \/ ev'.op = "auth" /\ ev'.state = s
                \/ ev'.op = "callback" /\ ev'.q.state = <<s>> /\ stateStore'[s] = None
                \/ ( /\ ev'.op = "sweep" /\ stateStore'[s] = None
                     /\ now - Val(stateStore[s]).createdAt > stateTTL ) ) ]_vars
  /\ \A s \in States : \A e \in OutlivedEntries :
        (stateStore[s] = Some(e)) ~> (stateStore[s] # Some(e))

\* The entry of s1 was never found by a callback, and the sweep has deleted
\* it.
C29_Witness ==
  /\ ev.op = "sweep"
  /\ issued["s1"] # None
  /\ usedSinceIssue["s1"] = 0
  /\ stateStore["s1"] = None
  /\ stateStore["s2"] # None

\* C30: the record stored after a code exchange has the user_id the provider
\* supplied in its token response when it supplied one, and otherwise the
\* user id parsed from the leading numeric segment of access_token.
C30_ProviderUserId ==
  ( /\ ev.op = "cbdone" /\ ev.tokens # None /\ ev.saved = "written" )
  => \A d \in ExchangeResponses :
        ( /\ d.access_token = Val(ev.tokens).access_token
          /\ d.refresh_token = Val(ev.tokens).refresh_token
          /\ d.expires_in = Val(ev.tokens).expires_in )
        => Val(tokenFile).user_id =
             IF d.user_id # None THEN d.user_id ELSE userIdFromToken(d.access_token)

\* ---------------------------------------------------------------------------
\* C31. TokenStorage keeps no copy of the record in memory: a getTokens or
\* loadPotentiallyExpiredTokens that reached the file (store enabled, no read
\* error) returns what the file holds at that moment, getTokens hiding a
\* record whose expires_at lies before the clock, whoever wrote, replaced or
\* deleted the file before.
C31_ReadsTheFile ==
  (ev.op \in {"get", "load"} /\ ev.out \in {"ok", "nofile"}) =>
    ev.ret = IF ev.op = "get" /\ IsSome(tokenFile) /\ IsExpired(Val(tokenFile))
             THEN None ELSE tokenFile

\* A read returns the record another process has put in the file.
C31_Witness ==
  /\ ev.op \in {"get", "load"}
  /\ ev.out = "ok"
  /\ IsSome(ev.ret)
  /\ Val(ev.ret).access_token = TokenC

\* ---------------------------------------------------------------------------
\* C32. The clear performed after a failed refresh removes only the record
\* whose refresh token that invocation read: a record persisted meanwhile by
\* an authorization or by another invocation's successful refresh is not
\* deleted by it.
C32_ClearsOwnRecord ==
  [][ ( /\ ev'.op = "tool" /\ ev'.step = "refreshed" /\ ev'.cleared = "cleared"
        /\ IsSome(tokenFile) /\ tokenFile' = None )
      => Val(tokenFile).refresh_token = ev'.pet.refresh_token ]_vars

\* ---------------------------------------------------------------------------
\* C33. A default shop stored by set_default_shop is not lost to a token
\* refresh: whenever a refresh writes the record while the file holds the
\* shop set_default_shop stored (shop 6; the callback only ever stores shop
\* 5), the record it writes still has that shop_id and shop_name.
C33_ShopSurvivesRefresh ==
  [][ ( /\ ev'.op = "tool" /\ ev'.step = "refreshed" /\ ev'.saved = "written"
        /\ IsSome(tokenFile)
        /\ Val(tokenFile).shop_id = Shop6.shop_id )
      => ( /\ Val(tokenFile').shop_id = Shop6.shop_id
           /\ Val(tokenFile').shop_name = Shop6.shop_name ) ]_vars

\* ---------------------------------------------------------------------------
\* C34 as stated. Whenever /oauth/callback answers with the 200 success page,
\* a getTokens issued right after the response returns a record with the
\* exchanged access token, in every storage mode.
C34_RecordStoredAnyMode ==
  (ev.op = "cbdone" /\ ev.status = 200)
  => LET g == getTokens(Store, "ok")
     IN IsSome(g.ret) /\ Val(g.ret).access_token = Val(ev.tokens).access_token

\* C34, amended. Whenever /oauth/callback answers with the 200 success page
\* and the token store is not in disabled mode, a getTokens issued right
\* after the response whose read succeeds returns a record with the exchanged
\* access token.
C34_RecordStored ==
  (ev.op = "cbdone" /\ ev.status = 200 /\ fileStorageEnabled)
  => LET g == getTokens(Store, "ok")
     IN IsSome(g.ret) /\ Val(g.ret).access_token = Val(ev.tokens).access_token

\* A callback answered 200 on an enabled store, its record in the file.
C34_Witness ==
  /\ ev.op = "cbdone" /\ ev.status = 200 /\ ev.saved = "written"
  /\ fileStorageEnabled
  /\ getTokens(Store, "ok").ret = tokenFile
  /\ Val(tokenFile).access_token = Val(ev.tokens).access_token

\* ---------------------------------------------------------------------------
\* C35. The periodic sweep never deletes an entry whose age is at most the
\* TTL: an entry that young leaves the store only by the callback that
\* consumes it. So a well-formed callback for a state that was issued at
\* most TTL ago and not yet consumed finds the pending entry and is accepted.
C35_PendingWithinTTL ==
  [][ /\ \A s \in States :
           ( /\ IsSome(stateStore[s])
             /\ now - Val(stateStore[s]).createdAt <= stateTTL
             /\ stateStore'[s] = None )
           => (ev'.op = "callback" /\ ev'.status = None /\ ev'.q.state = <<s>>)
      /\ ( /\ ev'.op = "callback"
           /\ RejectedEarly(ev'.q) = None
           /\ IsSome(stateStore[ev'.q.state[1]]) )
         => (ev'.status = None /\ ev'.exchange # None) ]_vars

\* A sweep has just run and left an entry whose age is exactly the TTL.
C35_Witness ==
  /\ ev.op = "sweep"
  /\ \E s \in States :
        IsSome(stateStore[s]) /\ now - Val(stateStore[s]).createdAt = stateTTL

\* ---------------------------------------------------------------------------
\* C36. A callback rejected before the state lookup (error parameter present,
\* or code missing or not a string) leaves the state store and the requests
\* in flight unchanged; when the state it names is pending, a well-formed
\* callback for that state that follows it is accepted and exchanges the
\* code with the verifier of that entry.
C36_EarlyRejectKeepsState ==
  [][ /\ ( /\ ev'.op = "callback"
           /\ (ev'.q.error # <<>> \/ NotAString(ev'.q.code)) )
         => ( /\ ev'.status = Some(500)
              /\ stateStore' = stateStore
              /\ usedSinceIssue' = usedSinceIssue
              /\ cbs' = cbs )
      /\ ( /\ ev.op = "callback"
           /\ (ev.q.error # <<>> \/ NotAString(ev.q.code))
           /\ ~NotAString(ev.q.state)
           /\ IsSome(stateStore[ev.q.state[1]])
           /\ ev'.op = "callback"
           /\ ev'.q = Query(<<>>, <<"abc">>, ev.q.state) )
         => ( /\ ev'.status = None
              /\ ev'.exchange =
                   Some([code |-> "abc",
                         codeVerifier |-> Val(stateStore[ev.q.state[1]]).codeVerifier]) ) ]_vars

\* A callback without a code was rejected and the entry of the state it
\* named is still pending, unused since it was issued.
C36_Witness ==
  /\ ev.op = "callback"
  /\ ev.q = Query(<<>>, <<>>, <<"s1">>)
  /\ ev.status = Some(500)
  /\ IsSome(stateStore["s1"])
  /\ usedSinceIssue["s1"] = 0

\* ---------------------------------------------------------------------------
\* C37. getTokens and loadPotentiallyExpiredTokens never modify the stored
\* record: the file is the same after every call of either. A getTokens that
\* read an expired record returns null and leaves it in place, so that a
\* loadPotentiallyExpiredTokens that follows and reads the file returns that
\* record, refresh_token included.
C37_ReadsLeaveRecord ==
  [][ /\ ev'.op \in {"get", "load"} => tokenFile' = tokenFile
      /\ ( /\ ev.op = "get" /\ ev.out = "ok" /\ ev.ret = None
           /\ ev'.op = "load" /\ ev'.out = "ok" )
         => ( /\ IsSome(tokenFile)
              /\ IsExpired(Val(tokenFile))
              /\ ev'.ret = tokenFile
              /\ Val(ev'.ret).refresh_token = Val(tokenFile).refresh_token ) ]_vars

\* loadPotentiallyExpiredTokens has returned an expired record with its
\* refresh token, which getTokens does not return.
C37_Witness ==
  /\ ev.op = "load" /\ ev.out = "ok"
  /\ ev.ret = tokenFile
  /\ IsExpired(Val(tokenFile))
  /\ IsSome(Val(ev.ret).refresh_token)
  /\ getTokens(Store, "ok").ret = None

====
